---- MODULE Spec2Model ----
(***************************************************************************)
(* NotesOS asynchronous ingestion pipeline: the Redis job broker           *)
(* (services/redis_client.py), the chunking, fact-check and grading        *)
(* workers (workers/*.py), the chunk store (services/vector_store.py) and  *)
(* the WebSocket notifier (services/websocket.py, main.py).                *)
(*                                                                         *)
(* Spec       : producers (API handlers calling enqueue_job) interleaved   *)
(*              with the worker loops, one step per await point.           *)
(* SpecNotify : the ConnectionManager of the API process, the relay task   *)
(*              and the worker processes' notifications.                   *)
(***************************************************************************)
EXTENDS Integers, Sequences, FiniteSets, TLC

---------------------------------------------------------------------------
(* Bounds of the model *)

MaxJobs == 2

Producers == {"p1"}
ChunkWorkers == {"cw1", "cw2"}
FactWorkers == {"fw1", "fw2"}
GradeWorkers == {"gw1"}
JobIds == 1 .. MaxJobs

Queues == {"chunking", "fact_check", "voice_grade"}
Resources == {"r1"}
Answers == {"a1"}
Course == "c1"

None == <<"none">>

---------------------------------------------------------------------------
(* Python values and their JSON text (json.dumps / json.loads).  A Python  *)
(* value is a tagged tuple; a JSON text is a tagged tuple of another       *)
(* family, so that an encoding slip shows as a value that does not decode  *)
(* to what was encoded.                                                    *)

PyStr(s) == <<"str", s>>
PyBool(b) == <<"bool", b>>
PyDict(f) == <<"dict", f>>
PyList(l) == <<"list", l>>

RECURSIVE json_dumps(_)
json_dumps(v) ==
    CASE v[1] = "str" -> <<"jstring", v[2]>>
      [] v[1] = "bool" -> <<"jliteral", IF v[2] THEN "true" ELSE "false">>
      [] v[1] = "none" -> <<"jliteral", "null">>
      [] v[1] = "dict" ->
            <<"jobject", [k \in DOMAIN v[2] |-> json_dumps(v[2][k])]>>
      [] v[1] = "list" ->
            <<"jarray", [i \in DOMAIN v[2] |-> json_dumps(v[2][i])]>>

RECURSIVE json_loads(_)
json_loads(j) ==
    CASE j[1] = "jstring" -> PyStr(j[2])
      [] j[1] = "jliteral" /\ j[2] = "true" -> PyBool(TRUE)
      [] j[1] = "jliteral" /\ j[2] = "false" -> PyBool(FALSE)
      [] j[1] = "jliteral" /\ j[2] = "null" -> None
      [] j[1] = "jobject" ->
            PyDict([k \in DOMAIN j[2] |-> json_loads(j[2][k])])
      [] j[1] = "jarray" ->
            PyList([i \in DOMAIN j[2] |-> json_loads(j[2][i])])

(* A text that is no JSON document: json.loads raises JSONDecodeError. *)
NotJson == <<"garbage">>
JSONDecodeError(text) == text[1] \notin {"jstring", "jliteral", "jobject", "jarray"}

(* dict.get(key): None when the key is absent. *)
DictGet(d, key) == IF key \in DOMAIN d[2] THEN d[2][key] ELSE None

(* The truth value Python gives a value in `if` and `and`. *)
Truthy(v) ==
    CASE v[1] = "none" -> FALSE
      [] v[1] = "bool" -> v[2]
      [] v[1] = "str" -> v[2] # ""
      [] v[1] = "dict" -> DOMAIN v[2] # {}
      [] v[1] = "list" -> DOMAIN v[2] # {}

(* str(uuid.uuid4()): the model draws ids from a counter; the text of the  *)
(* id is the number itself.                                                *)
JobIdStr(n) == PyStr(n)

(* The job dict built by enqueue_job. *)
JobDict(job_id, job_data) ==
    PyDict([id |-> JobIdStr(job_id), data |-> PyDict(job_data),
            status |-> PyStr("pending"), created_at |-> None])

---------------------------------------------------------------------------
(* Redis commands on the values the program keeps there *)

Rpush(list, value) == list \o <<value>>

(* LPUSH key value: the value becomes the head (left end) of the list. *)
Lpush(list, value) == <<value>> \o list

(* RPOP key: the tail (right end) of the list; nil on an empty list. *)
RpopValue(list) == IF list = <<>> THEN None ELSE list[Len(list)]

RpopKeep(list) == list

RpopRest(list) == IF list = <<>> THEN list ELSE SubSeq(list, 1, Len(list) - 1)

(* HSET key mapping: the named fields are overwritten, the others kept;   *)
(* the key is created when absent.                                        *)
Hset(hash, mapping) ==
    [f \in DOMAIN hash \cup DOMAIN mapping |->
        IF f \in DOMAIN mapping THEN mapping[f] ELSE hash[f]]

NoHash == [f \in {} |-> None]

---------------------------------------------------------------------------
(* services/chunking.py on Python strs as sequences of characters *)

(* The configuration of the chunking_service singleton, scaled down:     *)
(* ChunkingService(chunk_size=800, chunk_overlap=100, min_chunk_size=100). *)
chunk_size == 6
chunk_overlap == 2
min_chunk_size == 3

IsSpace(c) == c \in {" ", "\n", "\t"}

(* str.strip() *)
Strip(s) ==
    LET solid == {i \in 1 .. Len(s) : ~IsSpace(s[i])}
    IN  IF solid = {} THEN <<>>
        ELSE LET first == CHOOSE i \in solid : \A j \in solid : i <= j
                 last == CHOOSE i \in solid : \A j \in solid : j <= i
             IN  SubSeq(s, first, last)

(* An overlap that takes the whole buffer. *)
WholeBuffer(s, n) == s

(* s[-n:] for n > 0 *)
Tail_n(s, n) == IF Len(s) <= n THEN s ELSE SubSeq(s, Len(s) - n + 1, Len(s))

(* The end of the run of newlines that starts at i. *)
RECURSIVE NewlineRunEnd(_, _)
NewlineRunEnd(text, i) ==
    IF i + 1 <= Len(text) /\ text[i + 1] = "\n"
    THEN NewlineRunEnd(text, i + 1) ELSE i

(* re.split(r"\n\n+|\.\n", text): the leftmost match at each position,   *)
(* the run of newlines taken greedily; the parts between the matches,     *)
(* empty ones included.                                                   *)
RECURSIVE ReSplitParagraphs(_, _, _)
ReSplitParagraphs(text, i, start) ==
    IF i > Len(text) THEN <<SubSeq(text, start, Len(text))>>
    ELSE IF text[i] = "\n" /\ i + 1 <= Len(text) /\ text[i + 1] = "\n"
    THEN LET e == NewlineRunEnd(text, i)
         IN  <<SubSeq(text, start, i - 1)>> \o ReSplitParagraphs(text, e + 1, e + 1)
    ELSE IF text[i] = "." /\ i + 1 <= Len(text) /\ text[i + 1] = "\n"
    THEN <<SubSeq(text, start, i - 1)>> \o ReSplitParagraphs(text, i + 2, i + 2)
    ELSE ReSplitParagraphs(text, i + 1, start)

(* _split_into_paragraphs: the non-blank parts, stripped, each with the   *)
(* running position (advanced by the length of the non-blank parts only). *)
RECURSIVE ParagraphsOf(_, _, _)
ParagraphsOf(parts, k, current_pos) ==
    IF k > Len(parts) THEN <<>>
    ELSE IF Strip(parts[k]) # <<>>
    THEN <<[text |-> Strip(parts[k]), start |-> current_pos]>>
         \o ParagraphsOf(parts, k + 1, current_pos + Len(parts[k]))
    ELSE ParagraphsOf(parts, k + 1, current_pos)

_split_into_paragraphs(text) == ParagraphsOf(ReSplitParagraphs(text, 1, 1), 1, 0)

(* A chunk dict that does not carry the running index. *)
ChunkDictUnnumbered(current_chunk, chunk_index, current_start) ==
    [chunk_text |-> Strip(current_chunk), chunk_index |-> 0,
     char_start |-> current_start, char_end |-> current_start + Len(current_chunk)]

ChunkDict(current_chunk, chunk_index, current_start) ==
    [chunk_text |-> Strip(current_chunk), chunk_index |-> chunk_index,
     char_start |-> current_start, char_end |-> current_start + Len(current_chunk)]

(* The loop of chunk_text over the paragraphs from the k-th on. *)
RECURSIVE ChunkLoop(_, _, _, _, _, _, _, _)
ChunkLoop(paragraphs, k, chunks, current_chunk, current_start, chunk_index, size, overlap) ==
    IF k > Len(paragraphs)
    THEN IF current_chunk # <<>>
         THEN Append(chunks, ChunkDict(current_chunk, chunk_index, current_start))
         ELSE chunks
    ELSE
      LET para_text == paragraphs[k].text
          para_start == paragraphs[k].start
          potential_chunk ==
              current_chunk \o (IF current_chunk # <<>> THEN <<"\n", "\n">> ELSE <<>>)
              \o para_text
      IN  IF Len(potential_chunk) <= size
          THEN ChunkLoop(paragraphs, k + 1, chunks, potential_chunk, current_start,
                         chunk_index, size, overlap)
          ELSE
            LET flushed == current_chunk # <<>>
                chunks2 == IF flushed
                           THEN Append(chunks, ChunkDict(current_chunk, chunk_index,
                                                         current_start))
                           ELSE chunks
                index2 == IF flushed THEN chunk_index + 1 ELSE chunk_index
                seeded == current_chunk # <<>> /\ overlap > 0
                next_chunk == IF seeded
                              THEN Tail_n(current_chunk, overlap) \o <<"\n", "\n">>
                                   \o para_text
                              ELSE para_text
                next_start == IF seeded
                              THEN current_start + Len(next_chunk) - overlap
                                   - Len(para_text)
                              ELSE para_start
            IN  ChunkLoop(paragraphs, k + 1, chunks2, next_chunk, next_start, index2,
                          size, overlap)

(* chunk_text without the early return for a short text. *)
ChunkTextNoShortPath(text, size, overlap, min_size) ==
    ChunkLoop(_split_into_paragraphs(text), 1, <<>>, <<>>, 0, 0, size, overlap)

(* ChunkingService.chunk_text of a service built with (size, overlap, min_size). *)
ChunkTextWith(text, size, overlap, min_size) ==
    IF text = <<>> \/ Len(text) < min_size
    THEN <<[chunk_text |-> text, chunk_index |-> 0, char_start |-> 0,
            char_end |-> Len(text)]>>
    ELSE ChunkLoop(_split_into_paragraphs(text), 1, <<>>, <<>>, 0, 0, size, overlap)

(* chunking_service.chunk_text *)
chunk_text(text) == ChunkTextWith(text, chunk_size, chunk_overlap, min_chunk_size)

(* The end of the run of whitespace that starts at i. *)
RECURSIVE SpaceRunEnd(_, _)
SpaceRunEnd(text, i) ==
    IF i + 1 <= Len(text) /\ IsSpace(text[i + 1])
    THEN SpaceRunEnd(text, i + 1) ELSE i

(* re.split(r"(?<=[.!?])\s+", text): the runs of whitespace that follow a  *)
(* sentence end, taken greedily; the parts between them, empty ones        *)
(* included.                                                               *)
RECURSIVE ReSplitSentences(_, _, _)
ReSplitSentences(text, i, start) ==
    IF i > Len(text) THEN <<SubSeq(text, start, Len(text))>>
    ELSE IF IsSpace(text[i]) /\ i > 1 /\ text[i - 1] \in {".", "!", "?"}
    THEN LET e == SpaceRunEnd(text, i)
         IN  <<SubSeq(text, start, i - 1)>> \o ReSplitSentences(text, e + 1, e + 1)
    ELSE ReSplitSentences(text, i + 1, start)

(* _split_into_sentences: the same bookkeeping as _split_into_paragraphs. *)
_split_into_sentences(text) == ParagraphsOf(ReSplitSentences(text, 1, 1), 1, 0)

SentenceChunk(current_chunk, chunk_index, current_start) ==
    [chunk_text |-> current_chunk, chunk_index |-> chunk_index,
     char_start |-> current_start, char_end |-> current_start + Len(current_chunk)]

(* The loop of chunk_with_sentences over the sentences from the k-th on;   *)
(* the overlap is a parameter the loop does not read.                      *)
RECURSIVE SentenceLoop(_, _, _, _, _, _, _, _)
SentenceLoop(sentences, k, chunks, current_chunk, current_start, chunk_index, size, overlap) ==
    IF k > Len(sentences)
    THEN IF current_chunk # <<>>
         THEN Append(chunks, SentenceChunk(current_chunk, chunk_index, current_start))
         ELSE chunks
    ELSE
      LET sent_text == sentences[k].text
          potential_chunk == current_chunk \o <<" ">> \o sent_text
      IN  IF Len(potential_chunk) <= size
          THEN SentenceLoop(sentences, k + 1, chunks, Strip(potential_chunk),
                            current_start, chunk_index, size, overlap)
          ELSE IF current_chunk # <<>>
          THEN SentenceLoop(sentences, k + 1,
                   Append(chunks, SentenceChunk(current_chunk, chunk_index, current_start)),
                   sent_text, sentences[k].start, chunk_index + 1, size, overlap)
          ELSE SentenceLoop(sentences, k + 1, chunks, sent_text, sentences[k].start,
                            chunk_index, size, overlap)

(* chunking_service.chunk_with_sentences *)
chunk_with_sentences(text) ==
    SentenceLoop(_split_into_sentences(text), 1, <<>>, <<>>, 0, 0, chunk_size, chunk_overlap)

---------------------------------------------------------------------------
(* State *)

VARIABLES
    queue,      \* Redis lists queue:<name>, head first
    jobHash,    \* Redis hashes job:<id>; the empty function is an absent key
    jobTtl,     \* whether an expiry is set on job:<id>
    nextId,     \* the ids uuid4 has not returned yet
    prod,       \* API handlers inside enqueue_job
    cw,         \* chunking_worker loops
    pw,         \* fact-check and grading worker loops
    resource,   \* table resources (committed rows)
    chunkRows,  \* table resource_chunks (committed rows), in insertion order
    answer,     \* table test_answers (committed rows)
    channel,    \* Redis channel course_updates: messages not yet delivered
    subscribed, \* whether the relay of the API process is subscribed
    vs,         \* table resource_chunks as the searches of the vector store see it
    ocr,        \* the call of HybridOCR.extract_text_with_confidence in progress
    chunker,    \* the call of a ChunkingService method in progress
    enq,        \* history: what enqueue_job was called with, per job id
    deqLog,     \* history: the jobs popped, in order, with who popped them
    ended,      \* history: how the processing of each popped job ended
    expired,    \* history: the jobs whose 86400 seconds of expiry have run out
    active,     \* per process, ConnectionManager.active_connections
    users,      \* per process, ConnectionManager.connection_users
    roomGen,    \* per process and room, which set object the room maps to
    task,       \* the coroutines that call broadcast_to_course
    sock,       \* the peer of each WebSocket: open, stalled or gone
    inbox,      \* the broadcast messages each WebSocket was sent, in order
    bres,       \* history: how the last broadcast of each task went
    wkSeen,     \* history: the API-process sockets in the room of a worker event
    relayLog,   \* history: the bodies the relay received, with the broadcasts made
    published   \* how many envelopes the workers have published

brokerVars == <<queue, jobHash, jobTtl, nextId>>
dbVars == <<resource, chunkRows, answer>>
histVars == <<enq, deqLog, ended, expired>>
notifyVars ==
    <<active, users, roomGen, task, sock, inbox, bres, wkSeen, relayLog, published>>

(* Texts a resource can hold: Python strs as sequences of characters. *)
ShortText == <<"a", "b">>
LongText == <<"a", "b", "c", ".", "\n", "d", "e", "f", "g", "h">>
BlankText == <<" ", " ", " ", " ">>
Texts == {ShortText, LongText, BlankText}
IngestTexts == {LongText, BlankText}

NoResource == [exists |-> FALSE, content |-> <<>>, is_processed |-> FALSE,
               is_verified |-> FALSE]

NoAnswer == [exists |-> FALSE, graded |-> FALSE]

IdleProducer ==
    [pc |-> "idle", q |-> "chunking", data |-> NoHash, id |-> 0, flushed |-> None]

(* HybridOCR after __init__ with the default settings, no call in progress. *)
NoOcrResult == [provider |-> "none", confidence |-> 0]

OcrCall(enabled, client, premium_always) ==
    [pc |-> "idle", enabled |-> enabled, client |-> client,
     premium_always |-> premium_always, primary |-> 0,
     fallback |-> 0, invoked |-> FALSE, result |-> NoOcrResult,
     premium |-> FALSE, needs_aggressive_cleanup |-> FALSE]

OcrAtRest == OcrCall(TRUE, TRUE, FALSE)

(* The vector store before a row is stored or a search is made. *)
VectorStoreAtRest ==
    [pc |-> "store", rows |-> <<>>, method |-> "none", course_id |-> None,
     topic_id |-> None, limit |-> 0, results |-> [db \in {"A", "B"} |-> <<>>],
     top_results |-> [db \in {"A", "B"} |-> <<>>],
     resource_id |-> None, rowcount |-> [db \in {"A", "B"} |-> 0],
     repeated |-> FALSE, previous |-> [db \in {"A", "B"} |-> 0],
     possible |-> [db \in {"A", "B"} |-> {}]]

ChunkerAtRest == [pc |-> "text", text |-> <<>>, method |-> "none", chunks |-> <<>>]

IdleChunkWorker ==
    [pc |-> "poll", job_id |-> 0, data |-> NoHash, chunks |-> <<>>,
     embeddings |-> 0, how |-> "none", erred |-> FALSE, inserted |-> 0]

IdlePollWorker ==
    [pc |-> "poll", job_id |-> 0, data |-> NoHash, ret |-> <<"unset">>,
     wasEmpty |-> FALSE, erred |-> FALSE]

NotCalled == [called |-> FALSE, q |-> "chunking", data |-> NoHash,
              returned |-> FALSE, after |-> {}]

QueueOf(w) == IF w \in FactWorkers THEN "fact_check" ELSE "voice_grade"

(* The processes that import services/websocket.py, each with its own     *)
(* connection_manager singleton: the API process (main.py) and the        *)
(* chunking worker process (python -m app.workers.chunking_worker).       *)
Procs == {"api", "worker"}
Conns == {"ws1", "ws2", "ws3"}
Rooms == {"c1", "c2"}
Tasks == Conns \cup {"relay", "chunker"}
ProcOf(t) == IF t = "chunker" THEN "worker" ELSE "api"
UserOf(c) == c

NoRooms == [r \in {} |-> {}]
Nobody == "nobody"
NoUsers == [c \in {} |-> Nobody]
NoMessage == None
NoBroadcast == [done |-> FALSE, raised |-> FALSE, complete |-> TRUE, healed |-> TRUE]

(* A coroutine that is not inside broadcast_to_course; home is the room of *)
(* the WebSocket endpoint it runs.                                         *)
IdleTask(pc, home) ==
    [pc |-> pc, home |-> home, room |-> "c1", message |-> NoMessage,
     exclude |-> Nobody, orig |-> {}, seen |-> {}, size |-> 0, gen |-> 0,
     dead |-> {}, cur |-> Nobody, back |-> pc]

(* Nothing connected, no broadcast running. *)
NotifierAtRest(relay_pc) ==
    /\ active = [p \in Procs |-> NoRooms]
    /\ users = [p \in Procs |-> NoUsers]
    /\ roomGen = [p \in Procs |-> [r \in Rooms |-> 0]]
    /\ task = [t \in Tasks |->
                 IdleTask(IF t = "relay" THEN relay_pc
                          ELSE IF t = "chunker" THEN "idle" ELSE "new", "c1")]
    /\ sock = [c \in Conns |-> "open"]
    /\ inbox = [c \in Conns |-> <<>>]
    /\ bres = [t \in Tasks |-> NoBroadcast]
    /\ wkSeen = {}
    /\ relayLog = <<>>
    /\ published = 0

Init ==
    /\ queue = [q \in Queues |-> <<>>]
    /\ jobHash = [j \in JobIds |-> NoHash]
    /\ jobTtl = [j \in JobIds |-> FALSE]
    /\ nextId = 1
    /\ prod = [p \in Producers |-> IdleProducer]
    /\ cw = [w \in ChunkWorkers |-> IdleChunkWorker]
    /\ pw = [w \in FactWorkers \cup GradeWorkers |-> IdlePollWorker]
    /\ resource = [r \in Resources |-> NoResource]
    /\ chunkRows = <<>>
    /\ answer = [a \in Answers |-> NoAnswer]
    /\ channel = <<>>
    /\ subscribed = FALSE
    /\ vs = VectorStoreAtRest
    /\ chunker = ChunkerAtRest
    /\ ocr = OcrAtRest
    /\ enq = [j \in JobIds |-> NotCalled]
    /\ deqLog = <<>>
    /\ ended = [j \in JobIds |-> "none"]
    /\ expired = {}
    /\ NotifierAtRest("off")

---------------------------------------------------------------------------
(* API handlers that enqueue jobs (api/resources.py, api/ai_features.py) *)

(* redis_client.enqueue_job is entered: uuid4 gives a fresh id. *)
CallEnqueue(p, q, data, flushed) ==
    /\ nextId <= MaxJobs
    /\ prod' = [prod EXCEPT ![p] = [pc |-> "lpush", q |-> q, data |-> data,
                                    id |-> nextId, flushed |-> flushed]]
    /\ nextId' = nextId + 1
    /\ enq' = [enq EXCEPT ![nextId] =
                 [called |-> TRUE, q |-> q, data |-> data, returned |-> FALSE,
                  after |-> {j \in JobIds : enq[j].returned}]]

ChunkingPayload(r, text) == [resource_id |-> PyStr(r), text |-> PyStr(text)]

create_text_resource(p, r, text) ==
    /\ prod[p].pc = "idle"
    /\ ~resource[r].exists
    /\ resource' = [resource EXCEPT ![r] =
                      [exists |-> TRUE, content |-> text, is_processed |-> FALSE,
                       is_verified |-> FALSE]]
    /\ CallEnqueue(p, "chunking", ChunkingPayload(r, text), None)
    /\ UNCHANGED <<notifyVars, queue, jobHash, jobTtl, cw, pw, chunkRows, answer, channel,
                   subscribed, vs, chunker, ocr, deqLog, ended, expired>>

update_resource(p, r, text) ==
    /\ prod[p].pc = "idle"
    /\ resource[r].exists
    /\ resource' = [resource EXCEPT ![r].content = text, ![r].is_processed = FALSE]
    /\ CallEnqueue(p, "chunking", ChunkingPayload(r, text), None)
    /\ UNCHANGED <<notifyVars, queue, jobHash, jobTtl, cw, pw, chunkRows, answer, channel,
                   subscribed, vs, chunker, ocr, deqLog, ended, expired>>

(* The row is deleted and, by cascade, its chunks. *)
delete_resource(p, r) ==
    /\ prod[p].pc = "idle"
    /\ resource[r].exists
    /\ resource' = [resource EXCEPT ![r] = NoResource]
    /\ chunkRows' = SelectSeq(chunkRows, LAMBDA row : row.resource_id # r)
    /\ UNCHANGED <<notifyVars, brokerVars, prod, cw, pw, answer, channel, subscribed, vs, chunker, ocr, histVars>>

(* The minimum content length of a fact check (50), scaled down. *)
fact_check_min_len == 3

trigger_fact_check(p, r) ==
    /\ prod[p].pc = "idle"
    /\ resource[r].exists
    /\ Len(resource[r].content) >= fact_check_min_len
    /\ CallEnqueue(p, "fact_check", [resource_id |-> PyStr(r)], None)
    /\ UNCHANGED <<notifyVars, queue, jobHash, jobTtl, cw, pw, dbVars, channel, subscribed, vs, chunker, ocr,
                   deqLog, ended, expired>>

upload_voice_answer(p, a) ==
    /\ prod[p].pc = "idle"
    /\ ~answer[a].exists
    /\ answer' = [answer EXCEPT ![a].exists = TRUE]
    /\ CallEnqueue(p, "voice_grade",
                   [answer_id |-> PyStr(a), is_voice |-> PyBool(TRUE)], None)
    /\ UNCHANGED <<notifyVars, queue, jobHash, jobTtl, cw, pw, resource, chunkRows, channel,
                   subscribed, vs, chunker, ocr, deqLog, ended, expired>>

(* submit_test_answers: the TestAnswer is flushed (it has an id, it is not *)
(* committed), its grading job is enqueued, and the commit follows.        *)
submit_test_answers(p, a, is_voice) ==
    /\ prod[p].pc = "idle"
    /\ ~answer[a].exists
    /\ \A o \in Producers : prod[o].flushed # PyStr(a)
    /\ CallEnqueue(p, "voice_grade",
                   [answer_id |-> PyStr(a), is_voice |-> PyBool(is_voice)], PyStr(a))
    /\ UNCHANGED <<notifyVars, queue, jobHash, jobTtl, cw, pw, dbVars, channel, subscribed, vs, chunker, ocr,
                   deqLog, ended, expired>>

SubmitCommit(p) ==
    /\ prod[p].pc = "commit"
    /\ answer' = [answer EXCEPT ![prod[p].flushed[2]].exists = TRUE]
    /\ prod' = [prod EXCEPT ![p] = IdleProducer]
    /\ UNCHANGED <<notifyVars, brokerVars, cw, pw, resource, chunkRows, channel, subscribed, vs, chunker, ocr,
                   histVars>>

---------------------------------------------------------------------------
(* RedisClient.enqueue_job, one action per Redis command *)

(* A mapping that records the job under another status. *)
QueuedMapping(q, data) ==
    [status |-> "queued", queue |-> q, data |-> json_dumps(PyDict(data))]

PendingMapping(q, data) ==
    [status |-> "pending", queue |-> q, data |-> json_dumps(PyDict(data))]

EnqueueLpush(p) ==
    /\ prod[p].pc = "lpush"
    /\ queue' = [queue EXCEPT ![prod[p].q] =
                    Lpush(@, json_dumps(JobDict(prod[p].id, prod[p].data)))]
    /\ prod' = [prod EXCEPT ![p].pc = "hset"]
    /\ UNCHANGED <<notifyVars, jobHash, jobTtl, nextId, cw, pw, dbVars, channel, subscribed, vs, chunker, ocr,
                   histVars>>

EnqueueHset(p) ==
    /\ prod[p].pc = "hset"
    /\ jobHash' = [jobHash EXCEPT ![prod[p].id] =
                      Hset(@, PendingMapping(prod[p].q, prod[p].data))]
    /\ prod' = [prod EXCEPT ![p].pc = "expire"]
    /\ UNCHANGED <<notifyVars, queue, jobTtl, nextId, cw, pw, dbVars, channel, subscribed, vs, chunker, ocr,
                   histVars>>

(* EXPIRE, then enqueue_job returns the id. *)
EnqueueExpire(p) ==
    /\ prod[p].pc = "expire"
    /\ jobTtl' = [jobTtl EXCEPT ![prod[p].id] = TRUE]
    /\ prod' = [prod EXCEPT ![p] = IF prod[p].flushed = None THEN IdleProducer
                                   ELSE [prod[p] EXCEPT !.pc = "commit"]]
    /\ enq' = [enq EXCEPT ![prod[p].id].returned = TRUE]
    /\ UNCHANGED <<notifyVars, queue, jobHash, nextId, cw, pw, dbVars, channel, subscribed, vs, chunker, ocr,
                   deqLog, ended, expired>>

(* RedisClient.update_job_status: the mapping it writes. *)
StatusUpdates(status, result, error) ==
    LET withResult == IF result # None
                      THEN Hset([status |-> status], [result |-> json_dumps(result)])
                      ELSE [status |-> status]
    IN  IF error # None THEN Hset(withResult, [error |-> error]) ELSE withResult

update_job_status(hash, status, result, error) ==
    Hset(hash, StatusUpdates(status, result, error))

HashGet(job_data, field) ==
    IF field \in DOMAIN job_data THEN PyStr(job_data[field]) ELSE None

(* RedisClient.get_job_status(job_id): None for an absent key. *)
get_job_status(job_id) ==
    LET job_data == jobHash[job_id]
    IN  IF DOMAIN job_data = {}
        THEN None
        ELSE PyDict([id |-> JobIdStr(job_id),
                     status |-> HashGet(job_data, "status"),
                     queue |-> HashGet(job_data, "queue"),
                     result |-> IF "result" \in DOMAIN job_data
                                THEN json_loads(job_data.result) ELSE None,
                     error |-> HashGet(job_data, "error")])

(* Redis removes job:<id> when the 86400 seconds set by EXPIRE have run    *)
(* out.                                                                    *)
KeyExpires(job_id) ==
    /\ jobTtl[job_id]
    /\ jobHash' = [jobHash EXCEPT ![job_id] = NoHash]
    /\ jobTtl' = [jobTtl EXCEPT ![job_id] = FALSE]
    /\ expired' = expired \cup {job_id}
    /\ UNCHANGED <<notifyVars, queue, nextId, prod, cw, pw, dbVars, channel, subscribed, vs, chunker, ocr,
                   enq, deqLog, ended>>

---------------------------------------------------------------------------
(* The try statements of the three worker loops: where the loop goes when  *)
(* an exception reaches them.                                              *)

Errors == {"ConnectionError", "KeyError"}

(* A loop without an except clause: any exception ends it. *)
NoExceptClause(exc) == "stopped"

(* except asyncio.CancelledError: break / except Exception: sleep(1) *)
chunking_worker_except(exc) ==
    IF exc = "CancelledError" THEN "cancelled" ELSE "backoff"

(* except Exception: sleep(5); a CancelledError is not caught and ends the *)
(* coroutine.                                                              *)
poll_worker_except(exc) ==
    IF exc \in Errors THEN "backoff" ELSE "cancelled"

---------------------------------------------------------------------------
(* workers/chunking_worker.py: the loop of chunking_worker with           *)
(* process_chunking_job inlined, one action per await point               *)

PoppedJob(list) == json_loads(RpopValue(list))[2]

(* client.brpop("queue:chunking", timeout=5) returning a job. On an empty *)
(* list it returns None after the timeout and the loop polls again.       *)
CwBrpop(w) ==
    /\ cw[w].pc = "poll"
    /\ queue["chunking"] # <<>>
    /\ LET job == PoppedJob(queue["chunking"])
           job_id == job.id[2]
           job_data == job.data[2]
       IN  /\ cw' = [cw EXCEPT ![w] = [IdleChunkWorker EXCEPT
                        !.pc = "set_processing", !.job_id = job_id,
                        !.data = job_data, !.erred = cw[w].erred]]
           /\ deqLog' = Append(deqLog, [by |-> w, q |-> "chunking", id |-> job_id,
                                        data |-> job_data])
    /\ queue' = [queue EXCEPT !["chunking"] = RpopRest(@)]
    /\ UNCHANGED <<notifyVars, jobHash, jobTtl, nextId, prod, pw, dbVars, channel, subscribed, vs, chunker, ocr,
                   enq, ended, expired>>

(* update_job_status(job_id, "processing") *)
CwSetProcessing(w) ==
    /\ cw[w].pc = "set_processing"
    /\ jobHash' = [jobHash EXCEPT ![cw[w].job_id] =
                      update_job_status(@, "processing", None, None)]
    /\ cw' = [cw EXCEPT ![w].pc = "fetch"]
    /\ UNCHANGED <<notifyVars, queue, jobTtl, nextId, prod, pw, dbVars, channel, subscribed, vs, chunker, ocr,
                   histVars>>

ResourceIdOf(data) ==
    IF "resource_id" \in DOMAIN data THEN data.resource_id[2] ELSE data.note_id[2]

(* An await of process_chunking_job raises: control moves to its handler. *)
CwRaise(w) == cw' = [cw EXCEPT ![w].pc = "except"]

(* process_chunking_job returns to the loop. *)
CwReturn(w, how) == cw' = [cw EXCEPT ![w].pc = "set_completed", ![w].how = how]

(* The resource query: the row, no row (return), or an error. *)
CwFetchResource(w) ==
    /\ cw[w].pc = "fetch"
    /\ \/ /\ resource[ResourceIdOf(cw[w].data)].exists
          /\ cw' = [cw EXCEPT ![w].pc = "topic"]
       \/ /\ ~resource[ResourceIdOf(cw[w].data)].exists
          /\ CwReturn(w, "not_found")
       \/ CwRaise(w)
    /\ UNCHANGED <<notifyVars, brokerVars, prod, pw, dbVars, channel, subscribed, vs, chunker, ocr, histVars>>

(* The topic query, the "processing" broadcast on the worker process's own *)
(* ConnectionManager (no connection is ever registered there), chunk_text. *)
CwFetchTopic(w) ==
    /\ cw[w].pc = "topic"
    /\ \/ LET chunks == chunk_text(cw[w].data.text[2])
          IN  cw' = [cw EXCEPT ![w].chunks = chunks,
                               ![w].pc = IF chunks = <<>> THEN "commit_empty"
                                         ELSE "embed"]
       \/ CwRaise(w)
    /\ UNCHANGED <<notifyVars, brokerVars, prod, pw, dbVars, channel, subscribed, vs, chunker, ocr, histVars>>

(* No chunks: is_processed = True is committed and the job returns. The    *)
(* commit fails when the row is gone.                                      *)
CwCommitEmpty(w) ==
    /\ cw[w].pc = "commit_empty"
    /\ LET r == ResourceIdOf(cw[w].data)
       IN  \/ /\ resource[r].exists
              /\ resource' = [resource EXCEPT ![r].is_processed = TRUE]
              /\ CwReturn(w, "ok")
           \/ /\ CwRaise(w)
              /\ UNCHANGED resource
    /\ UNCHANGED <<notifyVars, brokerVars, prod, pw, chunkRows, answer, channel, subscribed, vs, chunker, ocr,
                   histVars>>

(* generate_embeddings_batch: one vector per text; the provider may answer *)
(* with fewer items, or the call may fail.                                 *)
CwEmbed(w) ==
    /\ cw[w].pc = "embed"
    /\ \/ \E n \in {Len(cw[w].chunks), Len(cw[w].chunks) - 1} :
            cw' = [cw EXCEPT ![w].embeddings = n, ![w].pc = "insert"]
       \/ CwRaise(w)
    /\ UNCHANGED <<notifyVars, brokerVars, prod, pw, dbVars, channel, subscribed, vs, chunker, ocr, histVars>>

(* Rows that all carry the first embedding of the batch. *)
ChunkRowsFirstEmbedding(resource_id, chunks) ==
    [i \in 1 .. Len(chunks) |->
        [resource_id |-> resource_id, chunk_text |-> chunks[i].chunk_text,
         chunk_index |-> chunks[i].chunk_index, embedding |-> 1]]

(* The rows insert_chunks stores for a resource: zip(chunks, embeddings),  *)
(* the embedding named by its place in the batch.                          *)
ChunkRowsOf(resource_id, chunks) ==
    [i \in 1 .. Len(chunks) |->
        [resource_id |-> resource_id, chunk_text |-> chunks[i].chunk_text,
         chunk_index |-> chunks[i].chunk_index, embedding |-> i]]

(* vector_store.insert_chunks: ValueError on a length mismatch, else one   *)
(* INSERT per chunk and a commit; a database error (the resource row is    *)
(* gone, the connection fails) stores nothing.                             *)
CwInsert(w) ==
    /\ cw[w].pc = "insert"
    /\ LET r == ResourceIdOf(cw[w].data)
       IN  \/ /\ Len(cw[w].chunks) # cw[w].embeddings
              /\ CwRaise(w)
              /\ UNCHANGED chunkRows
           \/ /\ Len(cw[w].chunks) = cw[w].embeddings
              /\ resource[r].exists
              /\ chunkRows' = chunkRows \o ChunkRowsOf(r, cw[w].chunks)
              /\ cw' = [cw EXCEPT ![w].pc = "mark", ![w].inserted = Len(cw[w].chunks)]
           \/ /\ Len(cw[w].chunks) = cw[w].embeddings
              /\ CwRaise(w)
              /\ UNCHANGED chunkRows
    /\ UNCHANGED <<notifyVars, brokerVars, prod, pw, resource, answer, channel, subscribed, vs, chunker, ocr,
                   histVars>>

(* is_processed = True, commit, the "completed" broadcast, return. *)
CwMarkProcessed(w) ==
    /\ cw[w].pc = "mark"
    /\ LET r == ResourceIdOf(cw[w].data)
       IN  \/ /\ resource[r].exists
              /\ resource' = [resource EXCEPT ![r].is_processed = TRUE]
              /\ CwReturn(w, "ok")
           \/ /\ CwRaise(w)
              /\ UNCHANGED resource
    /\ UNCHANGED <<notifyVars, brokerVars, prod, pw, chunkRows, answer, channel, subscribed, vs, chunker, ocr,
                   histVars>>

(* The handler of process_chunking_job: the "failed" broadcast, then the   *)
(* resource is read again and is_processed = False committed; an error in  *)
(* that is swallowed. Either way the function returns normally.            *)
CwExcept(w) ==
    /\ cw[w].pc = "except"
    /\ LET r == ResourceIdOf(cw[w].data)
       IN  \/ /\ resource[r].exists
              /\ resource' = [resource EXCEPT ![r].is_processed = FALSE]
           \/ UNCHANGED resource
    /\ CwReturn(w, "failed")
    /\ UNCHANGED <<notifyVars, brokerVars, prod, pw, chunkRows, answer, channel, subscribed, vs, chunker, ocr,
                   histVars>>

(* The status the loop writes once process_chunking_job has returned. *)
StatusAfterProcessing(how) == "completed"

(* update_job_status(job_id, "completed", result={"resource_id": ...}) *)
CwSetCompleted(w) ==
    /\ cw[w].pc = "set_completed"
    /\ jobHash' = [jobHash EXCEPT ![cw[w].job_id] =
                      update_job_status(@, StatusAfterProcessing(cw[w].how),
                          PyDict([resource_id |-> PyStr(ResourceIdOf(cw[w].data))]),
                          None)]
    /\ ended' = [ended EXCEPT ![cw[w].job_id] = cw[w].how]
    /\ cw' = [cw EXCEPT ![w] = IdleChunkWorker]
    /\ UNCHANGED <<notifyVars, queue, jobTtl, nextId, prod, pw, dbVars, channel, subscribed, vs, chunker, ocr,
                   enq, deqLog, expired>>

(* A worker process whose death put the job it held back on its queue. *)
CwCrashRequeue(w) ==
    /\ cw[w].pc \notin {"poll", "crashed", "cancelled"}
    /\ cw' = [cw EXCEPT ![w].pc = "crashed"]
    /\ queue' = [queue EXCEPT !["chunking"] =
                    Rpush(@, json_dumps(JobDict(cw[w].job_id, cw[w].data)))]
    /\ UNCHANGED <<notifyVars, jobHash, jobTtl, nextId, prod, pw, dbVars, channel,
                   subscribed, vs, chunker, ocr, histVars>>

(* The worker process dies while it holds a job (at any await point after  *)
(* brpop): nothing of the job is left but what was written before.         *)
CwCrash(w) ==
    /\ cw[w].pc \notin {"poll", "crashed", "cancelled"}
    /\ cw' = [cw EXCEPT ![w].pc = "crashed"]
    /\ UNCHANGED <<notifyVars, brokerVars, prod, pw, dbVars, channel, subscribed, vs, chunker, ocr, histVars>>

(* The task of chunking_worker is cancelled: CancelledError is raised at   *)
(* the await the worker is suspended in, passes the except Exception of    *)
(* process_chunking_job and ends the loop.  A commit that was in flight    *)
(* has been applied by the database, or has not.                           *)
CwCancel(w) ==
    /\ cw[w].pc \notin {"off", "crashed", "cancelled"}
    /\ cw' = [cw EXCEPT ![w].pc = "cancelled"]
    /\ LET r == ResourceIdOf(cw[w].data)
       IN  \/ UNCHANGED <<resource, chunkRows>>
           \/ /\ cw[w].pc \in {"commit_empty", "mark"}
              /\ resource[r].exists
              /\ resource' = [resource EXCEPT ![r].is_processed = TRUE]
              /\ UNCHANGED chunkRows
           \/ /\ cw[w].pc = "insert"
              /\ resource[r].exists
              /\ Len(cw[w].chunks) = cw[w].embeddings
              /\ chunkRows' = chunkRows \o ChunkRowsOf(r, cw[w].chunks)
              /\ UNCHANGED resource
    /\ UNCHANGED <<notifyVars, brokerVars, prod, pw, answer, channel, subscribed, vs, chunker, ocr, histVars>>

(* brpop, update_job_status or the "failed" broadcast of the job's handler *)
(* raises (the broker is unreachable, the job text is malformed): the      *)
(* loop's handler takes over.                                              *)
CwLoopRaise(w, exc) ==
    /\ cw[w].pc \in {"poll", "set_processing", "except", "set_completed"}
    /\ cw' = [cw EXCEPT ![w].pc = chunking_worker_except(exc), ![w].erred = TRUE]
    /\ UNCHANGED <<notifyVars, brokerVars, prod, pw, dbVars, channel, subscribed, vs, chunker, ocr, histVars>>

(* asyncio.sleep(1) of the handler is over: the loop polls again. *)
CwBackoffDone(w) ==
    /\ cw[w].pc = "backoff"
    /\ cw' = [cw EXCEPT ![w] = [IdleChunkWorker EXCEPT !.erred = TRUE]]
    /\ UNCHANGED <<notifyVars, brokerVars, prod, pw, dbVars, channel, subscribed, vs, chunker, ocr, histVars>>

---------------------------------------------------------------------------
(* workers/fact_check_worker.py and workers/grading_worker.py *)

(* RedisClient.dequeue_job: what it returns for the list it pops from. *)
dequeue_job(list) ==
    IF RpopValue(list) # None THEN PoppedJob(list).data ELSE None

(* Redis PUBLISH: delivered to the subscribers there are, kept by nobody. *)
RedisPublish(chan, text) == IF subscribed THEN Append(chan, text) ELSE chan

(* redis_client.publish(channel, message) *)
Publish(chan, message) == RedisPublish(chan, json_dumps(message))

(* job_data = await redis_client.dequeue_job(<queue>); a job is processed, *)
(* None makes the loop sleep and poll again.                              *)
PwDequeue(w) ==
    /\ pw[w].pc = "poll"
    /\ LET list == queue[QueueOf(w)]
           job_data == dequeue_job(list)
       IN  /\ queue' = [queue EXCEPT ![QueueOf(w)] = RpopRest(@)]
           /\ \/ /\ job_data # None
                 /\ pw' = [pw EXCEPT ![w] = [pc |-> "process",
                                             job_id |-> PoppedJob(list).id[2],
                                             data |-> job_data[2], ret |-> job_data,
                                             wasEmpty |-> list = <<>>,
                                             erred |-> pw[w].erred]]
                 /\ deqLog' = Append(deqLog, [by |-> w, q |-> QueueOf(w),
                                              id |-> PoppedJob(list).id[2],
                                              data |-> job_data[2]])
              \/ /\ job_data = None
                 /\ pw' = [pw EXCEPT ![w].ret = None, ![w].wasEmpty = (list = <<>>)]
                 /\ UNCHANGED deqLog
    /\ UNCHANGED <<notifyVars, jobHash, jobTtl, nextId, prod, cw, dbVars, channel, subscribed, vs, chunker, ocr,
                   enq, ended, expired>>

PwEnd(w, how) ==
    /\ pw' = [pw EXCEPT ![w].pc = "poll"]
    /\ ended' = [ended EXCEPT ![pw[w].job_id] = how]

(* The job processing raises into the loop. *)
PwRaise(w, exc, how) ==
    /\ pw' = [pw EXCEPT ![w].pc = poll_worker_except(exc), ![w].erred = TRUE]
    /\ ended' = [ended EXCEPT ![pw[w].job_id] = how]

(* dequeue_job raises (the broker is unreachable, the job text is          *)
(* malformed): the loop's handler takes over.                              *)
PwLoopRaise(w, exc) ==
    /\ pw[w].pc = "poll"
    /\ pw' = [pw EXCEPT ![w].pc = poll_worker_except(exc), ![w].erred = TRUE]
    /\ UNCHANGED <<notifyVars, brokerVars, prod, cw, dbVars, channel, subscribed, vs, chunker, ocr, histVars>>

(* asyncio.sleep(5) of the handler is over: the loop polls again. *)
PwBackoffDone(w) ==
    /\ pw[w].pc = "backoff"
    /\ pw' = [pw EXCEPT ![w].pc = "poll"]
    /\ UNCHANGED <<notifyVars, brokerVars, prod, cw, dbVars, channel, subscribed, vs, chunker, ocr, histVars>>

(* The task of a polling worker is cancelled: CancelledError is not an     *)
(* Exception, it leaves the loop.                                          *)
PwCancel(w) ==
    /\ pw[w].pc \notin {"off", "cancelled"}
    /\ pw' = [pw EXCEPT ![w].pc = poll_worker_except("CancelledError")]
    /\ UNCHANGED <<notifyVars, brokerVars, prod, cw, dbVars, channel, subscribed, vs, chunker, ocr, histVars>>

FactCheckEnvelope(r) ==
    PyDict([course_id |-> PyStr(Course),
            message |-> PyDict([type |-> PyStr("fact_check:complete"),
                                resource_id |-> PyStr(r)])])

(* process_fact_check_job, then back to the loop of start_fact_check_worker *)
(* (an exception is re-raised into the loop, which sleeps and goes on).    *)
PwProcessFact(w) ==
    /\ pw[w].pc = "process"
    /\ w \in FactWorkers
    /\ LET r == pw[w].data.resource_id[2]
       IN  \/ /\ ~resource[r].exists
              /\ PwEnd(w, "not_found")
              /\ UNCHANGED <<resource, channel>>
           \/ /\ resource[r].exists
              /\ Len(resource[r].content) < fact_check_min_len
              /\ PwEnd(w, "too_short")
              /\ UNCHANGED <<resource, channel>>
           \/ /\ resource[r].exists
              /\ Len(resource[r].content) >= fact_check_min_len
              /\ resource' = [resource EXCEPT ![r].is_verified = TRUE]
              /\ channel' = Publish(channel, FactCheckEnvelope(r))
              /\ PwEnd(w, "ok")
           \/ /\ \E exc \in Errors : PwRaise(w, exc, "failed")
              /\ UNCHANGED <<resource, channel>>
    /\ UNCHANGED <<notifyVars, brokerVars, prod, cw, chunkRows, answer, subscribed, vs, chunker, ocr, enq, deqLog,
                   expired>>

GradingEnvelope(a) ==
    PyDict([course_id |-> PyStr(Course),
            message |-> PyDict([type |-> PyStr("grading:complete"),
                                answer_id |-> PyStr(a)])])

(* process_grading_job (it catches its own exceptions), then back to the   *)
(* loop of start_grading_worker.                                           *)
PwProcessGrade(w) ==
    /\ pw[w].pc = "process"
    /\ w \in GradeWorkers
    /\ LET a == pw[w].data.answer_id[2]
       IN  \/ /\ ~answer[a].exists
              /\ PwEnd(w, "not_found")
              /\ UNCHANGED <<answer, channel>>
           \/ /\ answer[a].exists
              /\ answer' = [answer EXCEPT ![a].graded = TRUE]
              /\ channel' = Publish(channel, GradingEnvelope(a))
              /\ PwEnd(w, "ok")
           \/ /\ PwEnd(w, "failed")
              /\ UNCHANGED <<answer, channel>>
    /\ UNCHANGED <<notifyVars, brokerVars, prod, cw, resource, chunkRows, subscribed, vs, chunker, ocr, enq, deqLog,
                   expired>>

---------------------------------------------------------------------------
(* services/websocket.py: ConnectionManager, per process *)

MaxPublished == 1

RegOf(p) == [active |-> active[p], users |-> users[p], gen |-> roomGen[p]]

SetReg(p, reg) ==
    /\ active' = [active EXCEPT ![p] = reg.active]
    /\ users' = [users EXCEPT ![p] = reg.users]
    /\ roomGen' = [roomGen EXCEPT ![p] = reg.gen]

RoomMembers(am, room) == IF room \in DOMAIN am THEN am[room] ELSE {}

(* connect, after accept(): the room's set is created when absent (a new  *)
(* set object), the socket added, its user recorded.                       *)
Register(reg, ws, room, user_id) ==
    [active |-> [r \in DOMAIN reg.active \cup {room} |->
                    IF r = room THEN RoomMembers(reg.active, room) \cup {ws}
                    ELSE reg.active[r]],
     users |-> [c \in DOMAIN reg.users \cup {ws} |->
                    IF c = ws THEN user_id ELSE reg.users[c]],
     gen |-> IF room \in DOMAIN reg.active THEN reg.gen
             ELSE [reg.gen EXCEPT ![room] = @ + 1]]

(* disconnect, the room side: discard, and the room's entry deleted when   *)
(* its set is empty.                                                       *)
(* discard without the clean-up of an emptied room. *)
DiscardOnly(am, gone, room) ==
    IF room \in DOMAIN am THEN [am EXCEPT ![room] = @ \ gone] ELSE am

DiscardFromRoom(am, gone, room) ==
    IF room \in DOMAIN am
    THEN IF am[room] \ gone = {}
         THEN [r \in DOMAIN am \ {room} |-> am[r]]
         ELSE [am EXCEPT ![room] = @ \ gone]
    ELSE am

(* connection_users left as it is. *)
KeepUsers(um, gone) == um

PopUsers(um, gone) == [c \in DOMAIN um \ gone |-> um[c]]

(* disconnect(ws, room) for each ws of gone. *)
Disconnect(reg, gone, room) ==
    [active |-> DiscardFromRoom(reg.active, gone, room),
     users |-> PopUsers(reg.users, gone),
     gen |-> reg.gen]

(* What disconnect returns. *)
DisconnectResult(reg, ws) == IF ws \in DOMAIN reg.users THEN reg.users[ws] ELSE Nobody

(* History of the last broadcast_to_course of a task: whether it raised,   *)
(* whether a send was attempted to every connection other than exclude     *)
(* that the room had at the call and still has, whether the connections    *)
(* whose send raised are out of the room and of connection_users.          *)
BroadcastResult(tk, raised, reg) ==
    [done |-> TRUE, raised |-> raised,
     complete |-> ((tk.orig \ {tk.exclude})
                      \cap (RoomMembers(reg.active, tk.room) \cup tk.dead))
                        \subseteq tk.seen,
     healed |-> /\ tk.dead \cap RoomMembers(reg.active, tk.room) = {}
                /\ tk.dead \cap DOMAIN reg.users = {}]

(* The elements of the set object the loop iterates: the room's set while  *)
(* the room still maps to that object, the emptied object otherwise.       *)
IteratedSet(reg, tk) ==
    IF tk.room \in DOMAIN reg.active /\ reg.gen[tk.room] = tk.gen
    THEN reg.active[tk.room] ELSE {}

(* The for statement raises RuntimeError (set changed size during          *)
(* iteration): it leaves broadcast_to_course and ends the calling task.    *)
BroadcastRaises(t, reg, tk) ==
    /\ task' = [task EXCEPT ![t] =
                  IdleTask(IF t = "relay" THEN "dead" ELSE "crashed", tk.home)]
    /\ bres' = [bres EXCEPT ![t] = BroadcastResult(tk, TRUE, reg)]
    /\ SetReg(ProcOf(t), reg)

(* The loop is over: the dead connections are disconnected and             *)
(* broadcast_to_course returns to its caller.                              *)
BroadcastReturns(t, reg, tk) ==
    LET healed == Disconnect(reg, tk.dead, tk.room)
    IN  /\ task' = [task EXCEPT ![t] = IdleTask(tk.back, tk.home)]
        /\ bres' = [bres EXCEPT ![t] = BroadcastResult(tk, FALSE, healed)]
        /\ SetReg(ProcOf(t), healed)

(* The for statement takes the next connection (the iterator checks the    *)
(* size of the set first); the excluded one is skipped; the coroutine is   *)
(* suspended in send_text of the first one that is not.  The order of a    *)
(* set is any order; an element added during the iteration may be visited. *)
BroadcastNext(t, reg, tk) ==
    LET members == IteratedSet(reg, tk)
        rest == (members \ tk.seen) \ {tk.exclude}
    IN  IF Cardinality(members) # tk.size
        THEN BroadcastRaises(t, reg, tk)
        ELSE \/ \E c \in rest :
                  /\ task' = [task EXCEPT ![t] =
                                [tk EXCEPT !.pc = "sending", !.cur = c,
                                           !.seen = @ \cup {c}]]
                  /\ SetReg(ProcOf(t), reg)
                  /\ UNCHANGED bres
             \/ /\ rest \cap tk.orig = {}
                /\ BroadcastReturns(t, reg, tk)

(* broadcast_to_course(room, message, exclude) is called by task t, which  *)
(* goes on at pc back when it returns.                                     *)
broadcast_to_course(t, home, reg, room, message, exclude, back) ==
    LET tk == [IdleTask(back, home) EXCEPT
                  !.room = room, !.message = message, !.exclude = exclude,
                  !.orig = RoomMembers(reg.active, room),
                  !.size = Cardinality(RoomMembers(reg.active, room)),
                  !.gen = reg.gen[room]]
    IN  IF room \notin DOMAIN reg.active
        THEN BroadcastReturns(t, reg, tk)
        ELSE BroadcastNext(t, reg, tk)

(* await connection.send_text(message_json) completes: the peer has the    *)
(* message, or the send raised and the connection is noted dead. A send to *)
(* a stalled peer does not complete.                                       *)
SendCompletes(t) ==
    /\ task[t].pc = "sending"
    /\ \/ /\ sock[task[t].cur] = "open"
          /\ inbox' = [inbox EXCEPT ![task[t].cur] =
                          Append(@, json_dumps(task[t].message))]
          /\ BroadcastNext(t, RegOf(ProcOf(t)), task[t])
       \/ /\ sock[task[t].cur] = "gone"
          /\ UNCHANGED inbox
          /\ BroadcastNext(t, RegOf(ProcOf(t)),
                           [task[t] EXCEPT !.dead = @ \cup {task[t].cur}])
    /\ sock' = IF task'[t].pc = "crashed" THEN [sock EXCEPT ![t] = "gone"] ELSE sock
    /\ UNCHANGED <<brokerVars, prod, cw, pw, dbVars, channel, subscribed, vs, chunker, ocr, histVars,
                   wkSeen, relayLog, published>>

---------------------------------------------------------------------------
(* main.py: the WebSocket endpoint, one task per connection *)

IngestUnchanged ==
    UNCHANGED <<brokerVars, prod, cw, pw, dbVars, histVars, subscribed, vs, chunker, ocr>>

(* connection_manager.connect(websocket, course_id, user_id): accept,      *)
(* register, tell the others of the room.                                  *)
UserJoinedMessage(c) ==
    PyDict([type |-> PyStr("user_joined"), user_id |-> PyStr(UserOf(c)),
            timestamp |-> None])

Connect(c, room) ==
    /\ task[c].pc = "new"
    /\ sock[c] = "open"
    /\ broadcast_to_course(c, room,
           Register(RegOf("api"), c, room, UserOf(c)), room,
           UserJoinedMessage(c), c, "joined")
    /\ IngestUnchanged
    /\ UNCHANGED <<channel, sock, inbox, wkSeen, relayLog, published>>

get_active_users(reg, room) ==
    {reg.users[c] : c \in RoomMembers(reg.active, room) \cap DOMAIN reg.users}

(* list(a_set): the elements once each, in any order. *)
ListsOf(S) ==
    {l \in [1 .. Cardinality(S) -> S] : \A x \in S : \E i \in DOMAIN l : l[i] = x}

(* send_personal_message(websocket, active_users): an error is swallowed;  *)
(* then the endpoint waits in receive_text.                                *)
ActiveUsersMessage(l) ==
    json_dumps(PyDict([type |-> PyStr("active_users"),
                       users |-> PyList([i \in DOMAIN l |-> PyStr(l[i])])]))

SendActiveUsers(c) ==
    /\ task[c].pc = "joined"
    /\ \/ /\ sock[c] = "open"
          /\ \E l \in ListsOf(get_active_users(RegOf("api"), task[c].home)) :
                inbox' = [inbox EXCEPT ![c] = Append(@, ActiveUsersMessage(l))]
       \/ /\ sock[c] = "gone"
          /\ UNCHANGED inbox
    /\ task' = [task EXCEPT ![c].pc = "open"]
    /\ IngestUnchanged
    /\ UNCHANGED <<active, users, roomGen, channel, sock, bres, wkSeen, relayLog, published>>

(* receive_text raises WebSocketDisconnect: disconnect, and user_left to   *)
(* the room when disconnect returned a user id.                            *)
EndpointDisconnect(c) ==
    /\ task[c].pc = "open"
    /\ sock[c] = "gone"
    /\ LET reg == RegOf("api")
           room == task[c].home
           user_id == DisconnectResult(reg, c)
       IN  IF user_id # Nobody
           THEN broadcast_to_course(c, room, Disconnect(reg, {c}, room), room,
                    PyDict([type |-> PyStr("user_left"), user_id |-> PyStr(user_id)]),
                    Nobody, "closed")
           ELSE /\ task' = [task EXCEPT ![c].pc = "closed"]
                /\ SetReg("api", Disconnect(reg, {c}, room))
                /\ UNCHANGED bres
    /\ IngestUnchanged
    /\ UNCHANGED <<channel, sock, inbox, wkSeen, relayLog, published>>

(* The peer closes its connection: later sends to it raise. *)
PeerClose(c) ==
    /\ task[c].pc \in {"joined", "open", "sending"}
    /\ sock[c] \in {"open", "stalled"}
    /\ sock' = [sock EXCEPT ![c] = "gone"]
    /\ IngestUnchanged
    /\ UNCHANGED <<active, users, roomGen, task, channel, inbox, bres, wkSeen, relayLog, published>>

(* The peer stops reading: a send to it does not complete. *)
PeerStall(c) ==
    /\ task[c].pc \in {"joined", "open", "sending"}
    /\ sock[c] = "open"
    /\ sock' = [sock EXCEPT ![c] = "stalled"]
    /\ IngestUnchanged
    /\ UNCHANGED <<active, users, roomGen, task, channel, inbox, bres, wkSeen, relayLog, published>>

---------------------------------------------------------------------------
(* The relay of the API process and the events of the worker processes *)

(* start_redis_listener: one message of course_updates; an envelope with a *)
(* course_id and a message is broadcast to that room.                      *)
RelayReceive ==
    /\ task["relay"].pc = "listen"
    /\ channel # <<>>
    /\ channel' = Tail(channel)
    /\ LET data == Head(channel)
           message == json_loads(data)
           course_id == DictGet(message, "course_id")
           payload == DictGet(message, "message")
       IN  IF JSONDecodeError(data)
           THEN \* subscribe: except json.JSONDecodeError: continue
                /\ relayLog' = Append(relayLog, [data |-> data, calls |-> <<>>])
                /\ UNCHANGED <<active, users, roomGen, task, bres>>
           ELSE IF message[1] # "dict"
           THEN \* message.get raises AttributeError: the listener ends
                /\ relayLog' = Append(relayLog, [data |-> data, calls |-> <<>>])
                /\ task' = [task EXCEPT !["relay"].pc = "dead"]
                /\ UNCHANGED <<active, users, roomGen, bres>>
           ELSE IF Truthy(course_id) /\ Truthy(payload)
           THEN /\ relayLog' = Append(relayLog,
                      [data |-> data,
                       calls |-> <<[room |-> course_id[2], message |-> payload]>>])
                /\ broadcast_to_course("relay", task["relay"].home, RegOf("api"),
                       course_id[2], payload, Nobody, "listen")
           ELSE /\ relayLog' = Append(relayLog, [data |-> data, calls |-> <<>>])
                /\ UNCHANGED <<active, users, roomGen, task, bres>>
    /\ IngestUnchanged
    /\ UNCHANGED <<sock, inbox, wkSeen, published>>

(* A fact-check or grading worker publishes its completion envelope. *)
WorkerPublish(envelope) ==
    /\ published < MaxPublished
    /\ published' = published + 1
    /\ channel' = Publish(channel, envelope)
    /\ IngestUnchanged
    /\ UNCHANGED <<active, users, roomGen, task, sock, inbox, bres, wkSeen, relayLog>>

(* Bodies that some other publisher puts on channel:course_updates: not    *)
(* JSON, a JSON document that is no object, an object without a message.   *)
OtherBodies ==
    {NotJson, json_dumps(PyList(<<>>)), json_dumps(PyDict([course_id |-> PyStr(Course)]))}

(* A body arrives on the channel from a publisher that is not one of the   *)
(* workers.                                                                *)
ChannelMessage(data) ==
    /\ published < MaxPublished
    /\ published' = published + 1
    /\ channel' = RedisPublish(channel, data)
    /\ IngestUnchanged
    /\ UNCHANGED <<active, users, roomGen, task, sock, inbox, bres, wkSeen, relayLog>>

ProcessingStatus(resource_id, status) ==
    PyDict([type |-> PyStr("processing_status"), resource_id |-> PyStr(resource_id),
            status |-> PyStr(status)])

(* broadcast_processing_status(course_id, resource_id, status) as called   *)
(* by process_chunking_job: a broadcast_to_course of the connection        *)
(* manager of the process that calls it.                                   *)
broadcast_processing_status(t, course_id, resource_id, status) ==
    /\ task[t].pc = "idle"
    /\ broadcast_to_course(t, task[t].home, RegOf(ProcOf(t)), course_id,
           ProcessingStatus(resource_id, status), Nobody, "idle")
    /\ wkSeen' = wkSeen \cup RoomMembers(active["api"], course_id)
    /\ IngestUnchanged
    /\ UNCHANGED <<channel, sock, inbox, relayLog, published>>

StatusEvents == {"processing", "completed", "failed"}

---------------------------------------------------------------------------
(* The producers and the workers together *)

vars == <<queue, jobHash, jobTtl, nextId, prod, cw, pw, resource, chunkRows,
          answer, channel, subscribed, vs, chunker, ocr, enq, deqLog, ended, expired, active, users,
          roomGen, task, sock, inbox, bres, wkSeen, relayLog, published>>

ResourceHandlers ==
    \E p \in Producers :
        \/ \E r \in Resources, text \in IngestTexts : create_text_resource(p, r, text)
        \/ \E r \in Resources, text \in IngestTexts : update_resource(p, r, text)
        \/ \E r \in Resources : delete_resource(p, r)

FeatureHandlers ==
    \E p \in Producers :
        \/ \E r \in Resources, text \in Texts : update_resource(p, r, text)
        \/ \E r \in Resources : delete_resource(p, r)
        \/ \E r \in Resources : trigger_fact_check(p, r)
        \/ \E a \in Answers : upload_voice_answer(p, a)
        \/ \E a \in Answers, v \in BOOLEAN : submit_test_answers(p, a, v)
        \/ SubmitCommit(p)

Enqueue == \E p \in Producers : EnqueueLpush(p) \/ EnqueueHset(p) \/ EnqueueExpire(p)

ChunkingWorker ==
    \E w \in ChunkWorkers :
        \/ CwBrpop(w)
        \/ CwSetProcessing(w)
        \/ CwFetchResource(w)
        \/ CwFetchTopic(w)
        \/ CwCommitEmpty(w)
        \/ CwEmbed(w)
        \/ CwInsert(w)
        \/ CwMarkProcessed(w)
        \/ CwExcept(w)
        \/ CwSetCompleted(w)

PollWorker ==
    \E w \in FactWorkers \cup GradeWorkers :
        PwDequeue(w) \/ PwProcessFact(w) \/ PwProcessGrade(w) \/ PwBackoffDone(w)

(* Ingestion: the resource handlers, enqueue_job and the chunking workers. *)
Next == ResourceHandlers \/ Enqueue \/ ChunkingWorker

Spec == Init /\ [][Next]_vars

(* Ingestion over a long time and with failures: the expiry of the status  *)
(* records.                                                                *)
Faults ==
    \/ \E j \in JobIds : KeyExpires(j)
    \/ \E w \in ChunkWorkers : CwCrash(w)
    \/ \E w \in ChunkWorkers : CwCancel(w)

NextFaults == Next \/ Faults

SpecFaults == Init /\ [][NextFaults]_vars

(* Fact checks and grading of a resource ingested earlier: the handlers of *)
(* api/ai_features.py, enqueue_job and the two polling worker loops.       *)
InitPoll ==
    /\ queue = [q \in Queues |-> <<>>]
    /\ jobHash = [j \in JobIds |-> NoHash]
    /\ jobTtl = [j \in JobIds |-> FALSE]
    /\ nextId = 1
    /\ prod = [p \in Producers |-> IdleProducer]
    /\ cw = [w \in ChunkWorkers |-> IdleChunkWorker]
    /\ pw = [w \in FactWorkers \cup GradeWorkers |-> IdlePollWorker]
    /\ resource = [r \in Resources |->
                     [exists |-> TRUE, content |-> LongText, is_processed |-> TRUE,
                      is_verified |-> FALSE]]
    /\ chunkRows = ChunkRowsOf("r1", chunk_text(LongText))
    /\ answer = [a \in Answers |-> NoAnswer]
    /\ channel = <<>>
    /\ subscribed = FALSE
    /\ vs = VectorStoreAtRest
    /\ chunker = ChunkerAtRest
    /\ ocr = OcrAtRest
    /\ enq = [j \in JobIds |-> NotCalled]
    /\ deqLog = <<>>
    /\ ended = [j \in JobIds |-> "none"]
    /\ expired = {}
    /\ NotifierAtRest("off")

NextPoll == FeatureHandlers \/ Enqueue \/ PollWorker

SpecPoll == InitPoll /\ [][NextPoll]_vars

---------------------------------------------------------------------------
(* services/hybrid_ocr.py: extract_text_with_confidence.  Confidences are  *)
(* in hundredths, the scale of Tesseract's word confidences before the     *)
(* division by 100.0; what the two providers read from an image is an      *)
(* input.                                                                  *)

MaxConfidence == 100
Confidences == 0 .. MaxConfidence

GOOGLE_VISION_THRESHOLD == 65

OcrResult(provider, confidence) == [provider |-> provider, confidence |-> confidence]

(* A trigger that also fires at the threshold. *)
FallbackAtOrBelow(o, confidence) ==
    confidence <= GOOGLE_VISION_THRESHOLD /\ o.client /\ o.enabled

(* The condition of the if statement of step 2. *)
ShouldFallback(o, confidence) ==
    confidence < GOOGLE_VISION_THRESHOLD /\ o.client /\ o.enabled

(* A selection that prefers the fallback whenever it ran. *)
PreferFallback(tesseract_result, google_result) == google_result

(* if google_result["confidence"] > tesseract_result["confidence"]: return *)
(* google_result; otherwise the function falls through to tesseract_result.*)
SelectResult(tesseract_result, google_result) ==
    IF google_result.confidence > tesseract_result.confidence
    THEN google_result ELSE tesseract_result

OcrUnchanged ==
    UNCHANGED <<notifyVars, brokerVars, prod, cw, pw, dbVars, channel, subscribed, vs, chunker, histVars>>

(* Step 1, _tesseract_ocr_with_confidence, and the test of step 2. *)
TesseractOcr(confidence) ==
    /\ ocr.pc = "idle"
    /\ ocr' = IF ShouldFallback(ocr, confidence)
              THEN [ocr EXCEPT !.pc = "google_vision", !.primary = confidence,
                               !.invoked = TRUE]
              ELSE [ocr EXCEPT !.pc = "returned", !.primary = confidence,
                               !.result = OcrResult("tesseract", confidence)]
    /\ OcrUnchanged

(* _google_vision_ocr returns (confidence 0 when the request failed), and  *)
(* the function returns one of the two results.                            *)
GoogleVisionOcr(confidence) ==
    /\ ocr.pc = "google_vision"
    /\ ocr' = [ocr EXCEPT !.pc = "returned", !.fallback = confidence,
                          !.result = SelectResult(OcrResult("tesseract", ocr.primary),
                                                  OcrResult("google_vision", confidence))]
    /\ OcrUnchanged

(* pytesseract raises (no tesseract binary, an image it cannot read):     *)
(* _tesseract_ocr_with_confidence has no handler, nor have its callers in  *)
(* this module, and the call ends with the exception.                      *)
TesseractRaises ==
    /\ ocr.pc = "idle"
    /\ ocr' = [ocr EXCEPT !.pc = "raised"]
    /\ OcrUnchanged

(* process_handwritten_note(image_bytes, is_premium_user = True) with      *)
(* PREMIUM_ALWAYS_USE_GOOGLE_VISION and a client: _google_vision_ocr alone.*)
PremiumOcr(confidence) ==
    /\ ocr.pc = "idle"
    /\ ocr.premium_always /\ ocr.client
    /\ ocr' = [ocr EXCEPT !.pc = "premium_returned", !.premium = TRUE,
                          !.fallback = confidence,
                          !.result = OcrResult("google_vision", confidence)]
    /\ OcrUnchanged

LOW_CONFIDENCE_THRESHOLD == 40

(* A flag that is also set at the threshold. *)
CleanupAtOrBelow(result) == result.confidence <= LOW_CONFIDENCE_THRESHOLD

(* result["confidence"] < self.LOW_CONFIDENCE_THRESHOLD *)
NeedsAggressiveCleanup(result) == result.confidence < LOW_CONFIDENCE_THRESHOLD

(* process_handwritten_note sets the flag on the result and returns it. *)
ProcessHandwrittenNote ==
    /\ ocr.pc \in {"returned", "premium_returned"}
    /\ ocr' = [ocr EXCEPT !.pc = "processed",
                          !.needs_aggressive_cleanup = NeedsAggressiveCleanup(ocr.result)]
    /\ OcrUnchanged

(* The next image. *)
OcrNextCall ==
    /\ ocr.pc \in {"processed", "raised"}
    /\ ocr' = OcrCall(ocr.enabled, ocr.client, ocr.premium_always)
    /\ OcrUnchanged

(* The singleton after __init__: the client exists only if the setting    *)
(* was on and the library could be loaded.                                 *)
InitOcr ==
    /\ queue = [q \in Queues |-> <<>>]
    /\ jobHash = [j \in JobIds |-> NoHash]
    /\ jobTtl = [j \in JobIds |-> FALSE]
    /\ nextId = 1
    /\ prod = [p \in Producers |-> IdleProducer]
    /\ cw = [w \in ChunkWorkers |-> IdleChunkWorker]
    /\ pw = [w \in FactWorkers \cup GradeWorkers |-> IdlePollWorker]
    /\ resource = [r \in Resources |-> NoResource]
    /\ chunkRows = <<>>
    /\ answer = [a \in Answers |-> NoAnswer]
    /\ channel = <<>>
    /\ subscribed = FALSE
    /\ vs = VectorStoreAtRest
    /\ chunker = ChunkerAtRest
    /\ enq = [j \in JobIds |-> NotCalled]
    /\ deqLog = <<>>
    /\ ended = [j \in JobIds |-> "none"]
    /\ expired = {}
    /\ NotifierAtRest("off")
    /\ \E enabled \in BOOLEAN, client \in BOOLEAN, premium_always \in BOOLEAN :
          /\ client => enabled
          /\ ocr = OcrCall(enabled, client, premium_always)

NextOcr ==
    \/ \E confidence \in Confidences : TesseractOcr(confidence)
    \/ \E confidence \in Confidences : GoogleVisionOcr(confidence)
    \/ TesseractRaises
    \/ \E confidence \in Confidences : PremiumOcr(confidence)
    \/ ProcessHandwrittenNote
    \/ OcrNextCall

SpecOcr == InitOcr /\ [][NextOcr]_vars

---------------------------------------------------------------------------
(* services/hybrid_ocr.py: _calculate_weighted_confidence.  A word is its  *)
(* length and its confidence in hundredths; the function's float is the    *)
(* exact fraction num/den of hundredths, the weights being kept in thirds  *)
(* (max(1, len/3) = max(3, len)/3).                                        *)

MaxWords == 3
WordLengths == {1, 3, 4, 8}
WordConfidences == {0, 50, 90, 100}
Words == [len : WordLengths, conf : WordConfidences]

(* Every word counted once, whatever its length. *)
UnitWeight(word) == 3

(* weight = max(1, len(word) / 3), in thirds *)
WordWeight(word) == IF word.len > 3 THEN word.len ELSE 3

RECURSIVE WeightedLoop(_, _, _, _)
WeightedLoop(word_confidences, k, weighted_sum, total_weight) ==
    IF k > Len(word_confidences)
    THEN IF total_weight > 0 THEN [num |-> weighted_sum, den |-> total_weight]
         ELSE [num |-> 0, den |-> 1]
    ELSE WeightedLoop(word_confidences, k + 1,
                      weighted_sum + word_confidences[k].conf * WordWeight(word_confidences[k]),
                      total_weight + WordWeight(word_confidences[k]))

_calculate_weighted_confidence(word_confidences) ==
    IF word_confidences = <<>> THEN [num |-> 0, den |-> 1]
    ELSE WeightedLoop(word_confidences, 1, 0, 0)

NoScore == [num |-> 0, den |-> 0]

(* Tesseract reports one more word of the image. *)
TesseractWord(word) ==
    /\ ocr.pc = "words"
    /\ Len(ocr.words) < MaxWords
    /\ ocr' = [ocr EXCEPT !.words = Append(@, word)]
    /\ OcrUnchanged

(* overall_confidence = self._calculate_weighted_confidence(word_confidences) *)
ScoreWords ==
    /\ ocr.pc = "words"
    /\ ocr' = [ocr EXCEPT !.pc = "scored",
                          !.overall_confidence = _calculate_weighted_confidence(ocr.words)]
    /\ OcrUnchanged

NextImage ==
    /\ ocr.pc = "scored"
    /\ ocr' = [pc |-> "words", words |-> <<>>, overall_confidence |-> NoScore]
    /\ OcrUnchanged

InitWords ==
    /\ queue = [q \in Queues |-> <<>>]
    /\ jobHash = [j \in JobIds |-> NoHash]
    /\ jobTtl = [j \in JobIds |-> FALSE]
    /\ nextId = 1
    /\ prod = [p \in Producers |-> IdleProducer]
    /\ cw = [w \in ChunkWorkers |-> IdleChunkWorker]
    /\ pw = [w \in FactWorkers \cup GradeWorkers |-> IdlePollWorker]
    /\ resource = [r \in Resources |-> NoResource]
    /\ chunkRows = <<>>
    /\ answer = [a \in Answers |-> NoAnswer]
    /\ channel = <<>>
    /\ subscribed = FALSE
    /\ vs = VectorStoreAtRest
    /\ chunker = ChunkerAtRest
    /\ enq = [j \in JobIds |-> NotCalled]
    /\ deqLog = <<>>
    /\ ended = [j \in JobIds |-> "none"]
    /\ expired = {}
    /\ NotifierAtRest("off")
    /\ ocr = [pc |-> "words", words |-> <<>>, overall_confidence |-> NoScore]

NextWords == (\E word \in Words : TesseractWord(word)) \/ ScoreWords \/ NextImage

SpecWords == InitWords /\ [][NextWords]_vars

---------------------------------------------------------------------------
(* services/chunking.py called on every text up to MaxTextLen characters   *)
(* of a letter, a blank, a full stop and a newline.                        *)

MaxTextLen == 8
Alphabet == {"a", " ", ".", "\n"}

ChunkerUnchanged ==
    UNCHANGED <<notifyVars, brokerVars, prod, cw, pw, dbVars, channel, subscribed, vs, ocr,
                histVars>>

(* The caller's text, one character longer. *)
TextChar(c) ==
    /\ chunker.pc = "text"
    /\ Len(chunker.text) < MaxTextLen
    /\ chunker' = [chunker EXCEPT !.text = Append(@, c)]
    /\ ChunkerUnchanged

CallChunkText ==
    /\ chunker.pc = "text"
    /\ chunker' = [chunker EXCEPT !.pc = "returned", !.method = "chunk_text",
                                  !.chunks = chunk_text(chunker.text)]
    /\ ChunkerUnchanged

CallChunkWithSentences ==
    /\ chunker.pc = "text"
    /\ chunker' = [chunker EXCEPT !.pc = "returned", !.method = "chunk_with_sentences",
                                  !.chunks = chunk_with_sentences(chunker.text)]
    /\ ChunkerUnchanged

NextText ==
    /\ chunker.pc = "returned"
    /\ chunker' = ChunkerAtRest
    /\ ChunkerUnchanged

NextChunker ==
    \/ \E c \in Alphabet : TextChar(c)
    \/ CallChunkText
    \/ CallChunkWithSentences
    \/ NextText

SpecChunker == Init /\ [][NextChunker]_vars

---------------------------------------------------------------------------
(* The three worker loops under errors and cancellation: one worker of     *)
(* each kind, the handlers that feed their queues, and the exceptions that *)
(* reach the try statement of each loop.  Each worker module is started as *)
(* a process of its own (asyncio.run under __main__); the loops share      *)
(* nothing but the broker, and a behaviour follows the one that is started.*)

LoopChunkWorker == "cw1"
LoopPollWorkers == {"fw1", "gw1"}

NotStarted(rec) == [rec EXCEPT !.pc = "off"]

InitLoops ==
    \E live \in {LoopChunkWorker} \cup LoopPollWorkers :
        /\ queue = [q \in Queues |-> <<>>]
        /\ jobHash = [j \in JobIds |-> NoHash]
        /\ jobTtl = [j \in JobIds |-> FALSE]
        /\ nextId = 1
        /\ prod = [p \in Producers |-> IdleProducer]
        /\ cw = [w \in ChunkWorkers |->
                   IF w = live THEN IdleChunkWorker ELSE NotStarted(IdleChunkWorker)]
        /\ pw = [w \in FactWorkers \cup GradeWorkers |->
                   IF w = live THEN IdlePollWorker ELSE NotStarted(IdlePollWorker)]
        /\ resource = [r \in Resources |->
                         [exists |-> TRUE, content |-> LongText, is_processed |-> TRUE,
                          is_verified |-> FALSE]]
        /\ chunkRows = ChunkRowsOf("r1", chunk_text(LongText))
        /\ answer = [a \in Answers |-> NoAnswer]
        /\ channel = <<>>
        /\ subscribed = FALSE
        /\ vs = VectorStoreAtRest
        /\ chunker = ChunkerAtRest
        /\ ocr = OcrAtRest
        /\ enq = [j \in JobIds |-> NotCalled]
        /\ deqLog = <<>>
        /\ ended = [j \in JobIds |-> "none"]
        /\ expired = {}
        /\ NotifierAtRest("off")

LoopHandlers ==
    \E p \in Producers :
        \/ \E r \in Resources, text \in Texts : update_resource(p, r, text)
        \/ \E r \in Resources : trigger_fact_check(p, r)
        \/ \E a \in Answers : upload_voice_answer(p, a)

ChunkingLoop ==
    LET w == LoopChunkWorker
    IN  \/ CwBrpop(w)
        \/ CwSetProcessing(w)
        \/ CwFetchResource(w)
        \/ CwFetchTopic(w)
        \/ CwCommitEmpty(w)
        \/ CwEmbed(w)
        \/ CwInsert(w)
        \/ CwMarkProcessed(w)
        \/ CwExcept(w)
        \/ CwSetCompleted(w)
        \/ \E exc \in Errors : CwLoopRaise(w, exc)
        \/ CwBackoffDone(w)
        \/ CwCancel(w)

PollLoops ==
    \E w \in LoopPollWorkers :
        \/ PwDequeue(w)
        \/ PwProcessFact(w)
        \/ PwProcessGrade(w)
        \/ \E exc \in Errors : PwLoopRaise(w, exc)
        \/ PwBackoffDone(w)
        \/ PwCancel(w)

NextLoops == LoopHandlers \/ Enqueue \/ ChunkingLoop \/ PollLoops

(* asyncio.sleep returns after its delay unless the task is cancelled. *)
LoopProgress ==
    /\ WF_vars(CwBackoffDone(LoopChunkWorker))
    /\ \A w \in LoopPollWorkers : WF_vars(PwBackoffDone(w))

SpecLoops == InitLoops /\ [][NextLoops]_vars /\ LoopProgress

(* Notification: the API process (endpoints of the connections, relay      *)
(* started by lifespan and subscribed to course_updates) and the events    *)
(* that reach it from the worker processes.                                *)
InitNotify ==
    /\ queue = [q \in Queues |-> <<>>]
    /\ jobHash = [j \in JobIds |-> NoHash]
    /\ jobTtl = [j \in JobIds |-> FALSE]
    /\ nextId = 1
    /\ prod = [p \in Producers |-> IdleProducer]
    /\ cw = [w \in ChunkWorkers |-> IdleChunkWorker]
    /\ pw = [w \in FactWorkers \cup GradeWorkers |-> IdlePollWorker]
    /\ resource = [r \in Resources |-> NoResource]
    /\ chunkRows = <<>>
    /\ answer = [a \in Answers |-> NoAnswer]
    /\ channel = <<>>
    /\ subscribed = TRUE
    /\ vs = VectorStoreAtRest
    /\ chunker = ChunkerAtRest
    /\ ocr = OcrAtRest
    /\ enq = [j \in JobIds |-> NotCalled]
    /\ deqLog = <<>>
    /\ ended = [j \in JobIds |-> "none"]
    /\ expired = {}
    /\ NotifierAtRest("listen")

(* The connections that come and go while the relay and the worker send. *)
NotifyConns == {"ws1", "ws2"}

Endpoint ==
    \E c \in NotifyConns :
        \/ \E room \in Rooms : Connect(c, room)
        \/ SendActiveUsers(c)
        \/ EndpointDisconnect(c)

Peer == \E c \in NotifyConns : PeerClose(c) \/ PeerStall(c)

Sends == \E t \in Tasks : SendCompletes(t)

WorkerEvents ==
    \/ \E r \in Resources : WorkerPublish(FactCheckEnvelope(r))
    \/ \E a \in Answers : WorkerPublish(GradingEnvelope(a))
    \/ \E data \in OtherBodies : ChannelMessage(data)
    \/ \E status \in StatusEvents :
          broadcast_processing_status("chunker", Course, "r1", status)

NextNotify == Endpoint \/ Peer \/ Sends \/ RelayReceive \/ WorkerEvents

Progress ==
    /\ \A t \in Tasks : WF_vars(SendCompletes(t))
    /\ \A c \in NotifyConns : WF_vars(SendActiveUsers(c)) /\ WF_vars(EndpointDisconnect(c))
    /\ WF_vars(RelayReceive)

SpecNotify == InitNotify /\ [][NextNotify]_vars /\ Progress

---------------------------------------------------------------------------
(* The endpoint alone, with no event from the workers: ws1 and then ws2    *)
(* have joined room c1 and been told the active users; a third connection  *)
(* joins a room while the two stay, stall or leave.                        *)

JoinedTask == [IdleTask("joined", Course) EXCEPT !.pc = "open"]

TwoInRoom ==
    Register(Register([active |-> NoRooms, users |-> NoUsers,
                       gen |-> [r \in Rooms |-> 0]],
                      "ws1", Course, UserOf("ws1")),
             "ws2", Course, UserOf("ws2"))

NotifierJoined ==
    /\ active = [p \in Procs |-> IF p = "api" THEN TwoInRoom.active ELSE NoRooms]
    /\ users = [p \in Procs |-> IF p = "api" THEN TwoInRoom.users ELSE NoUsers]
    /\ roomGen = [p \in Procs |-> IF p = "api" THEN TwoInRoom.gen
                                  ELSE [r \in Rooms |-> 0]]
    /\ task = [t \in Tasks |->
                 IF t \in NotifyConns THEN JoinedTask
                 ELSE IdleTask(IF t = "relay" THEN "listen"
                               ELSE IF t = "chunker" THEN "idle" ELSE "new", Course)]
    /\ sock = [c \in Conns |-> "open"]
    /\ inbox = [c \in Conns |->
                  IF c = "ws1"
                  THEN <<ActiveUsersMessage(<<UserOf("ws1")>>),
                         json_dumps(UserJoinedMessage("ws2"))>>
                  ELSE IF c = "ws2"
                  THEN <<ActiveUsersMessage(<<UserOf("ws1"), UserOf("ws2")>>)>>
                  ELSE <<>>]
    /\ bres = [t \in Tasks |->
                 IF t \in NotifyConns THEN [NoBroadcast EXCEPT !.done = TRUE]
                 ELSE NoBroadcast]
    /\ wkSeen = {}
    /\ relayLog = <<>>
    /\ published = 0

InitJoin ==
    /\ queue = [q \in Queues |-> <<>>]
    /\ jobHash = [j \in JobIds |-> NoHash]
    /\ jobTtl = [j \in JobIds |-> FALSE]
    /\ nextId = 1
    /\ prod = [p \in Producers |-> IdleProducer]
    /\ cw = [w \in ChunkWorkers |-> IdleChunkWorker]
    /\ pw = [w \in FactWorkers \cup GradeWorkers |-> IdlePollWorker]
    /\ resource = [r \in Resources |-> NoResource]
    /\ chunkRows = <<>>
    /\ answer = [a \in Answers |-> NoAnswer]
    /\ channel = <<>>
    /\ subscribed = TRUE
    /\ vs = VectorStoreAtRest
    /\ chunker = ChunkerAtRest
    /\ ocr = OcrAtRest
    /\ enq = [j \in JobIds |-> NotCalled]
    /\ deqLog = <<>>
    /\ ended = [j \in JobIds |-> "none"]
    /\ expired = {}
    /\ NotifierJoined

JoinEndpoint ==
    \E c \in Conns :
        \/ \E room \in Rooms : Connect(c, room)
        \/ SendActiveUsers(c)
        \/ EndpointDisconnect(c)

JoinPeer == \E c \in Conns : PeerClose(c) \/ PeerStall(c)

NextJoin == JoinEndpoint \/ JoinPeer \/ Sends

SpecJoin == InitJoin /\ [][NextJoin]_vars

---------------------------------------------------------------------------
(* Properties of the broker and of the workers *)

StatusOf(hash) == IF "status" \in DOMAIN hash THEN hash.status ELSE "absent"

Terminal == {"completed", "failed"}

(* C1: once the status record of a job holds completed or failed, no step *)
(* of any process changes its status field.                               *)
C1_TerminalStatusIsFinal ==
    [][\A j \in JobIds :
         StatusOf(jobHash[j]) \in Terminal
            => StatusOf(jobHash'[j]) = StatusOf(jobHash[j])]_vars

ForwardMove(old, new) ==
    \/ old = "pending" /\ new = "processing"
    \/ old = "processing" /\ new \in Terminal

(* C2: every change of a job's status field is a forward move of the state *)
(* machine pending -> processing -> completed | failed; the status never  *)
(* goes back to pending.                                                   *)
C2_StatusMovesForward ==
    [][\A j \in JobIds :
         (StatusOf(jobHash[j]) # "absent"
          /\ StatusOf(jobHash'[j]) # StatusOf(jobHash[j]))
            => ForwardMove(StatusOf(jobHash[j]), StatusOf(jobHash'[j]))]_vars

(* C3: each enqueued job is handed to at most one consumer: no job is ever *)
(* returned by two pops, whichever consumers of the queue make them.       *)
C3_AtMostOneConsumer ==
    \A i, k \in DOMAIN deqLog : i # k => deqLog[i].id # deqLog[k].id

(* Two consumers of the chunking queue hold a popped job at the same time. *)
C3_Witness ==
    /\ \A w \in ChunkWorkers : cw[w].pc # "poll"
    /\ Len(deqLog) = 2
    /\ deqLog[1].by # deqLog[2].by

(* C4: a job whose enqueue_job returned before another enqueue_job on the  *)
(* same queue started is dequeued before it; a dequeued payload is the     *)
(* payload enqueued; dequeue_job returns None exactly on an empty queue.   *)
C4_FifoRoundTrip ==
    /\ \A i \in DOMAIN deqLog :
          /\ enq[deqLog[i].id].called
          /\ deqLog[i].data = enq[deqLog[i].id].data
          /\ deqLog[i].q = enq[deqLog[i].id].q
          /\ \A j \in enq[deqLog[i].id].after :
                enq[j].q = deqLog[i].q
                   => \E k \in 1 .. i - 1 : deqLog[k].id = j
    /\ \A w \in FactWorkers \cup GradeWorkers :
          pw[w].ret # <<"unset">> => (pw[w].ret = None <=> pw[w].wasEmpty)

(* Two jobs enqueued one after the other on one queue have both been       *)
(* dequeued, and a dequeue_job has met the empty queue.                    *)
C4_Witness ==
    /\ Len(deqLog) = 2
    /\ deqLog[1].q = deqLog[2].q
    /\ deqLog[1].id \in enq[deqLog[2].id].after
    /\ \E w \in FactWorkers \cup GradeWorkers : pw[w].ret = None /\ pw[w].wasEmpty

(* C5: when a step of process_chunking_job fails, the worker sets the job's *)
(* status to failed with the error message, never to completed.            *)
C5_FailedJobMarkedFailed ==
    \A j \in JobIds :
        ended[j] = "failed"
           => /\ StatusOf(jobHash[j]) # "completed"
              /\ StatusOf(jobHash[j]) = "failed"
              /\ "error" \in DOMAIN jobHash[j]

(* C6: a job of the fact_check or voice_grade queue that a worker dequeued *)
(* and finished processing has a terminal status.                          *)
C6_PolledJobBecomesTerminal ==
    \A j \in JobIds :
        (ended[j] # "none" /\ enq[j].q \in {"fact_check", "voice_grade"})
           => StatusOf(jobHash[j]) \in Terminal

ChunkIndexesOf(r) ==
    {i \in DOMAIN chunkRows : chunkRows[i].resource_id = r}

(* C7: the chunks stored for a resource have chunk_index values 0..n-1 with *)
(* no value occurring twice, after any sequence of chunking jobs for it.   *)
C7_ChunkIndexesContiguous ==
    \A r \in Resources :
        /\ \A i, k \in ChunkIndexesOf(r) :
              i # k => chunkRows[i].chunk_index # chunkRows[k].chunk_index
        /\ {chunkRows[i].chunk_index : i \in ChunkIndexesOf(r)}
              = 0 .. Cardinality(ChunkIndexesOf(r)) - 1

---------------------------------------------------------------------------
(* Properties of the notifier *)

HasStatus(c) ==
    \E i \in 1 .. Len(inbox[c]) :
        /\ inbox[c][i][1] = "jobject"
        /\ "type" \in DOMAIN inbox[c][i][2]
        /\ inbox[c][i][2].type = json_dumps(PyStr("processing_status"))

(* C8: when a chunking worker running in its own process has raised a      *)
(* processing_status event for a resource of the course, every connection  *)
(* that was registered in the course's room of the API process is          *)
(* eventually sent the event, unless it leaves the room or a peer closes   *)
(* or stops reading.                                                       *)
C8_WorkerStatusReachesRoom ==
    \A c \in Conns :
        (c \in wkSeen) ~> \/ HasStatus(c)
                          \/ c \notin RoomMembers(active["api"], Course)
                          \/ \E d \in Conns : sock[d] # "open"

(* An open connection of the room that a broadcast in progress has not     *)
(* reached yet.                                                            *)
Waiting(t, c) ==
    /\ task[t].pc = "sending"
    /\ c \in IteratedSet(RegOf(ProcOf(t)), task[t])
    /\ c \notin task[t].seen
    /\ c # task[t].exclude
    /\ sock[c] = "open"

(* C9: an open connection of the room does not wait for ever for a         *)
(* broadcast in progress, whatever the other connections do: a send that   *)
(* never completes does not keep the message from it.                      *)
C9_StalledSendDoesNotBlock ==
    \A t \in Tasks, c \in Conns : Waiting(t, c) ~> ~Waiting(t, c)

(* C10: a broadcast_to_course that has ended has not raised, has attempted *)
(* a send to every connection of the room except exclude, and has removed  *)
(* every connection whose send raised from the room and from               *)
(* connection_users.                                                       *)
C10_BroadcastContract ==
    \A t \in Tasks :
        bres[t].done => ~bres[t].raised /\ bres[t].complete /\ bres[t].healed

(* What start_redis_listener is to do with a body received on the channel: *)
(* one broadcast_to_course for an envelope with a room and a message, none *)
(* for any other body.                                                     *)
CallsDue(data) ==
    IF JSONDecodeError(data) \/ json_loads(data)[1] # "dict"
    THEN <<>>
    ELSE IF /\ Truthy(DictGet(json_loads(data), "course_id"))
            /\ Truthy(DictGet(json_loads(data), "message"))
         THEN <<[room |-> DictGet(json_loads(data), "course_id")[2],
                 message |-> DictGet(json_loads(data), "message")]>>
         ELSE <<>>

(* C11: each envelope received with a room and a message is broadcast to   *)
(* that room once, in the order received; any other body is skipped, and   *)
(* the relay goes on listening for the envelopes that follow.              *)
C11_RelayForwardsEachEnvelope ==
    /\ \A i \in DOMAIN relayLog : relayLog[i].calls = CallsDue(relayLog[i].data)
    /\ task["relay"].pc # "dead"

---------------------------------------------------------------------------
(* Properties of the broker over time and under failures *)

(* C12: once the 86400 seconds after enqueue_job set the expiry of a job   *)
(* have run out, get_job_status returns None for it, whatever the worker   *)
(* wrote and when.                                                         *)
C12_StatusRecordGoneAfterTtl ==
    \A j \in expired : get_job_status(j) = None

JobInQueue(q, j) ==
    \E i \in DOMAIN queue[q] : json_loads(queue[q][i])[2].id = JobIdStr(j)

TimesPopped(j) == Cardinality({i \in DOMAIN deqLog : deqLog[i].id = j})

(* What is claimed of the job a dead worker held, but for the Resource. *)
LostJob(j) ==
    /\ ~JobInQueue("chunking", j)
    /\ TimesPopped(j) = 1
    /\ StatusOf(jobHash[j]) \notin Terminal
    /\ ended[j] = "none"

(* C13 as stated: the job a worker held when it died is in no queue, was   *)
(* popped once, has no terminal status, and (no other job having been      *)
(* popped) its Resource has is_processed false.                            *)
C13_CrashLeavesUnprocessed ==
    \A w \in ChunkWorkers :
        cw[w].pc = "crashed" =>
            /\ LostJob(cw[w].job_id)
            /\ (Len(deqLog) = 1 /\ resource[ResourceIdOf(cw[w].data)].exists)
                  => ~resource[ResourceIdOf(cw[w].data)].is_processed

(* C13, amended: as above, with is_processed false when the worker died    *)
(* before process_chunking_job had committed is_processed = True.          *)
C13_CrashedJobIsLost ==
    \A w \in ChunkWorkers :
        cw[w].pc = "crashed" =>
            /\ LostJob(cw[w].job_id)
            /\ (/\ cw[w].how # "ok"
                /\ Len(deqLog) = 1
                /\ resource[ResourceIdOf(cw[w].data)].exists)
                  => ~resource[ResourceIdOf(cw[w].data)].is_processed

(* A worker died holding a job whose status is processing and whose        *)
(* Resource is not committed as processed; the other worker popped and     *)
(* finished another job, not this one.                                     *)
C13_Witness ==
    \E w, v \in ChunkWorkers :
        /\ cw[w].pc = "crashed"
        /\ cw[w].how # "ok"
        /\ StatusOf(jobHash[cw[w].job_id]) = "processing"
        /\ resource[ResourceIdOf(cw[w].data)].exists
        /\ Len(deqLog) = 2
        /\ deqLog[1].by = w /\ deqLog[2].by = v /\ v # w
        /\ ended[deqLog[2].id] # "none"

(* C14: after the chunking worker was cancelled inside                     *)
(* process_chunking_job, at whichever await, the Resource of the job in    *)
(* flight (no other job having been popped) has is_processed false.        *)
C14_CancelLeavesUnprocessed ==
    \A w \in ChunkWorkers :
        (/\ cw[w].pc = "cancelled"
         /\ cw[w].job_id # 0
         /\ cw[w].how = "none"
         /\ Len(deqLog) = 1
         /\ resource[ResourceIdOf(cw[w].data)].exists)
            => ~resource[ResourceIdOf(cw[w].data)].is_processed

(* C15: in each of the three worker loops an error raised by the dequeue   *)
(* or by the processing of a job never ends the loop: the step that raises *)
(* it takes the worker to the handler's sleep, the sleep is followed by    *)
(* the next poll unless the task is cancelled meanwhile, and a loop is     *)
(* left by a cancellation only.                                            *)
LoopPc(w) == IF w \in ChunkWorkers THEN cw[w].pc ELSE pw[w].pc

LoopPcNext(w) == IF w \in ChunkWorkers THEN cw'[w].pc ELSE pw'[w].pc

LoopCancelled(w) == IF w \in ChunkWorkers THEN CwCancel(w) ELSE PwCancel(w)

LoopWorkers == {LoopChunkWorker} \cup LoopPollWorkers

LoopLeft == {"cancelled", "stopped", "crashed"}

C15_ErrorNeverEndsLoop ==
    /\ [][\A w \in LoopWorkers :
             /\ (LoopPc(w) \notin LoopLeft /\ LoopPcNext(w) \in LoopLeft)
                    => LoopCancelled(w)
             /\ (LoopPc(w) = "backoff" /\ LoopPcNext(w) \notin LoopLeft)
                    => LoopPcNext(w) \in {"backoff", "poll"}]_vars
    /\ \A w \in LoopWorkers :
          (LoopPc(w) = "backoff") ~> (LoopPc(w) \in {"poll", "cancelled"})

(* A worker whose loop caught an error took a job from its queue later. *)
C15_Witness ==
    \/ cw[LoopChunkWorker].erred /\ cw[LoopChunkWorker].pc = "set_processing"
    \/ \E w \in LoopPollWorkers : pw[w].erred /\ pw[w].pc = "process"

(* No worker has called update_job_status for job j: it was not popped, or *)
(* the worker that popped it has not passed its first update.  Only the    *)
(* chunking worker updates job records.                                    *)
NoWorkerUpdate(j) ==
    \A i \in DOMAIN deqLog :
        (deqLog[i].id = j /\ deqLog[i].q = "chunking")
            => (cw[deqLog[i].by].job_id = j /\ cw[deqLog[i].by].pc = "set_processing")

ReportsPending(j) ==
    /\ get_job_status(j) # None
    /\ DictGet(get_job_status(j), "status") = PyStr("pending")
    /\ DictGet(get_job_status(j), "queue") = PyStr(enq[j].q)

(* An id handed out by enqueue_job was never returned before, and an id    *)
(* that no call has been given has no record.                              *)
FreshIds ==
    /\ \A p \in Producers :
          prod[p].pc \in {"lpush", "hset", "expire"} => ~enq[prod[p].id].returned
    /\ \A p1, p2 \in Producers :
          (p1 # p2 /\ prod[p1].pc \in {"lpush", "hset", "expire"}
                   /\ prod[p2].pc \in {"lpush", "hset", "expire"})
              => prod[p1].id # prod[p2].id
    /\ \A j \in JobIds : ~enq[j].called => get_job_status(j) = None

(* C16 as stated: enqueue_job returns a fresh id; from its return until a  *)
(* worker updates the job, get_job_status reports pending and the queue    *)
(* given; an id never enqueued has no status.                              *)
C16_PendingUntilWorkerUpdate ==
    /\ FreshIds
    /\ \A j \in JobIds :
          (enq[j].returned /\ NoWorkerUpdate(j)) => ReportsPending(j)

(* C16 amended: the same, for as long as the 86400 seconds of the record   *)
(* have not run out.                                                       *)
C16_PendingUntilUpdateOrExpiry ==
    /\ FreshIds
    /\ \A j \in JobIds :
          (enq[j].returned /\ NoWorkerUpdate(j) /\ j \notin expired) => ReportsPending(j)

(* Two ids were returned, one whose job a worker holds before its first    *)
(* update and one still queued; both report pending.                       *)
C16_Witness ==
    \E j, k \in JobIds :
        /\ j # k
        /\ enq[j].returned /\ enq[k].returned
        /\ expired = {}
        /\ \E w \in ChunkWorkers : cw[w].job_id = j /\ cw[w].pc = "set_processing"
        /\ JobInQueue(enq[k].q, k)
        /\ ReportsPending(j) /\ ReportsPending(k)

(* The step of c's task is connect(c, room) up to its first await. *)
ConnectCalled(c) == task[c].pc = "new" /\ task'[c].pc # "new"

(* The step of c's task is the end of connect's broadcast. *)
ConnectEnds(c) ==
    /\ task[c].pc = "new" \/ (task[c].pc = "sending" /\ task[c].back = "joined")
    /\ task'[c].pc \in {"joined", "crashed"}

(* C17: connect(ws, room, identity) registers ws in the room under its     *)
(* identity, and its user_joined broadcast returns having sent to every    *)
(* connection that was in the room before and is still there, and ws       *)
(* itself is never sent its own user_joined.                               *)
C17_ConnectNotifiesRoom ==
    /\ [][\A c \in Conns :
             /\ ConnectCalled(c) =>
                    \E room \in Rooms :
                        /\ task'[c].home = room
                        /\ room \in DOMAIN active'["api"]
                        /\ RoomMembers(active'["api"], room) =
                              RoomMembers(active["api"], room) \cup {c}
                        /\ c \in DOMAIN users'["api"]
                        /\ users'["api"][c] = UserOf(c)
             /\ ConnectEnds(c) =>
                    /\ task'[c].pc = "joined"
                    /\ bres'[c].done /\ ~bres'[c].raised /\ bres'[c].complete]_vars
    /\ [](\A c \in Conns : \A i \in DOMAIN inbox[c] :
              inbox[c][i] # json_dumps(UserJoinedMessage(c)))

(* C18: in every state the connection manager of a process can be in, and  *)
(* for every connection ws and room, disconnect(ws, room) leaves ws out of *)
(* the room and out of the identities, returns the identity recorded at    *)
(* connect (none for a connection that is not registered), leaves no room  *)
(* with an empty set (the manager never holds one), and leaves the other   *)
(* rooms and the other connections' identities as they were.               *)
C18_DisconnectContract ==
    \A p \in Procs :
        LET reg == RegOf(p)
        IN  /\ \A r \in DOMAIN reg.active : reg.active[r] # {}
            /\ \A ws \in Conns, room \in Rooms :
                  LET after == Disconnect(reg, {ws}, room)
                  IN  /\ RoomMembers(after.active, room) =
                            RoomMembers(reg.active, room) \ {ws}
                      /\ ws \notin DOMAIN after.users
                      /\ DisconnectResult(reg, ws) =
                            (IF ws \in DOMAIN reg.users THEN UserOf(ws) ELSE Nobody)
                      /\ \A r \in DOMAIN after.active : after.active[r] # {}
                      /\ \A r \in Rooms \ {room} :
                            /\ r \in DOMAIN after.active <=> r \in DOMAIN reg.active
                            /\ RoomMembers(after.active, r) = RoomMembers(reg.active, r)
                      /\ \A c \in DOMAIN reg.users \ {ws} :
                            c \in DOMAIN after.users /\ after.users[c] = reg.users[c]

(* Both connections of room c1 have left through the endpoint's disconnect *)
(* and the room's entry is gone, while a third connection is registered in *)
(* the other room.                                                         *)
C18_Witness ==
    /\ task["ws1"].pc = "closed" /\ task["ws2"].pc = "closed"
    /\ Course \notin DOMAIN active["api"]
    /\ DOMAIN users["api"] = {"ws3"}
    /\ \E r \in DOMAIN active["api"] : active["api"][r] = {"ws3"}

(* C19: the fallback provider is invoked exactly when the primary          *)
(* confidence is below 0.65 and the fallback client exists and is enabled; *)
(* with both, a primary confidence of 0.40 invokes it and one of 0.80 does *)
(* not.                                                                    *)
C19_FallbackTrigger ==
    ocr.pc \in {"google_vision", "returned"} =>
        /\ ocr.invoked <=> (ocr.primary < 65 /\ ocr.client /\ ocr.enabled)
        /\ (ocr.client /\ ocr.enabled /\ ocr.primary = 40) => ocr.invoked
        /\ (ocr.primary = 80) => ~ocr.invoked
        /\ (ocr.pc = "google_vision") => ocr.invoked

C19_Witness ==
    /\ ocr.pc = "returned" /\ ocr.invoked /\ ocr.primary = 40
    /\ ocr.client /\ ocr.enabled

(* C20: when both providers ran, the returned result is one of the two and *)
(* its confidence is the larger of the two confidences; when only the      *)
(* primary ran, the primary's result is returned.                          *)
C20_HigherConfidenceWins ==
    ocr.pc = "returned" =>
        IF ocr.invoked
        THEN /\ ocr.result \in {OcrResult("tesseract", ocr.primary),
                                 OcrResult("google_vision", ocr.fallback)}
             /\ ocr.result.confidence >= ocr.primary
             /\ ocr.result.confidence >= ocr.fallback
        ELSE ocr.result = OcrResult("tesseract", ocr.primary)

C20_Witness ==
    /\ ocr.pc = "returned" /\ ocr.invoked
    /\ ocr.fallback > ocr.primary
    /\ ocr.result = OcrResult("google_vision", ocr.fallback)

(* C21: on every result process_handwritten_note returns, from the         *)
(* standard path or from the premium always-fallback path, the flag        *)
(* needs_aggressive_cleanup is set exactly when the confidence of the      *)
(* returned result is below 0.40.                                          *)
C21_CleanupFlag ==
    ocr.pc = "processed" =>
        (ocr.needs_aggressive_cleanup <=> ocr.result.confidence < 40)

C21_Witness ==
    /\ ocr.pc = "processed" /\ ocr.premium
    /\ ocr.needs_aggressive_cleanup /\ ocr.result.confidence = 39

(* C22: whichever provider raises, the call does not end with the error:   *)
(* a call that has started returns a result.                               *)
C22_ProviderErrorsAreCaught == ocr.pc # "raised"

(* Sums over the words of a list, by index. *)
RECURSIVE SumWeights(_, _)
SumWeights(ws, n) ==
    IF n = 0 THEN 0
    ELSE SumWeights(ws, n - 1) + (IF ws[n].len > 3 THEN ws[n].len ELSE 3)

RECURSIVE SumWeighted(_, _)
SumWeighted(ws, n) ==
    IF n = 0 THEN 0
    ELSE SumWeighted(ws, n - 1) + ws[n].conf * (IF ws[n].len > 3 THEN ws[n].len ELSE 3)

ExampleWords == <<[len |-> 1, conf |-> 90], [len |-> 8, conf |-> 50]>>

WeightedMeanLaw ==
    LET ws == ocr.words
        r == ocr.overall_confidence
    IN  /\ r.den > 0
        /\ (ws = <<>>) => r.num = 0
        /\ (ws # <<>>) =>
              /\ r.num * SumWeights(ws, Len(ws)) = SumWeighted(ws, Len(ws)) * r.den
              /\ \E i \in DOMAIN ws : ws[i].conf * r.den <= r.num
              /\ \E i \in DOMAIN ws : ws[i].conf * r.den >= r.num

(* C23 as stated: the weighted mean law, and 0.59 within 0.01 for          *)
(* [("a", 0.90), ("elephant", 0.50)].                                      *)
C23_WeightedConfidence ==
    ocr.pc = "scored" =>
        /\ WeightedMeanLaw
        /\ (ocr.words = ExampleWords) =>
              /\ 58 * ocr.overall_confidence.den <= ocr.overall_confidence.num
              /\ ocr.overall_confidence.num <= 60 * ocr.overall_confidence.den

(* C23 amended: the same law; the example's value is 0.61 within 0.01.     *)
C23_WeightedConfidenceExample ==
    ocr.pc = "scored" =>
        /\ WeightedMeanLaw
        /\ (ocr.words = ExampleWords) =>
              /\ 60 * ocr.overall_confidence.den <= ocr.overall_confidence.num
              /\ ocr.overall_confidence.num <= 62 * ocr.overall_confidence.den

C23_Witness == ocr.pc = "scored" /\ ocr.words = ExampleWords

---------------------------------------------------------------------------
(* Properties of the chunker *)

IsPrefix(p, s) == Len(p) <= Len(s) /\ SubSeq(s, 1, Len(p)) = p

LastChars(s, k) == IF Len(s) <= k THEN s ELSE SubSeq(s, Len(s) - k + 1, Len(s))

Returned(method) == chunker.pc = "returned" /\ chunker.method = method

(* C24: for a text shorter than min_chunk_size, the empty text included,   *)
(* chunk_text returns exactly one chunk: index 0, the text itself, from 0  *)
(* to the length of the text.                                              *)
C24_ShortTextOneChunk ==
    (Returned("chunk_text") /\ Len(chunker.text) < min_chunk_size) =>
        chunker.chunks = <<[chunk_text |-> chunker.text, chunk_index |-> 0,
                            char_start |-> 0, char_end |-> Len(chunker.text)]>>

C24_Witness ==
    /\ Returned("chunk_text") /\ chunker.text = <<" ", " ">>
    /\ Len(chunker.chunks) = 1

(* C25: the chunks returned by chunk_text and by chunk_with_sentences      *)
(* carry the indices 0, 1, ..., n-1 in list order.                         *)
C25_IndicesInOrder ==
    chunker.pc = "returned" =>
        \A i \in DOMAIN chunker.chunks : chunker.chunks[i].chunk_index = i - 1

C25_Witness ==
    /\ chunker.pc = "returned" /\ Len(chunker.chunks) = 2
    /\ chunker.chunks[2].chunk_index = 1

(* C26 as stated: every chunk of chunk_text after the first begins with    *)
(* the last chunk_overlap characters of the chunk before it.               *)
C26_ChunkBeginsWithOverlap ==
    Returned("chunk_text") =>
        \A i \in DOMAIN chunker.chunks :
            i > 1 => IsPrefix(LastChars(chunker.chunks[i - 1].chunk_text, chunk_overlap),
                              chunker.chunks[i].chunk_text)

(* C26 amended: every chunk after the first begins with the trimmed seed   *)
(* of its buffer: the last chunk_overlap characters of the chunk before    *)
(* it, a blank line and the paragraph that triggered the flush, without    *)
(* the whitespace the overlap begins with.                                 *)
C26_ChunkBeginsWithTrimmedSeed ==
    Returned("chunk_text") =>
        LET paragraphs == _split_into_paragraphs(chunker.text)
        IN  \A i \in DOMAIN chunker.chunks :
                i > 1 =>
                  \E k \in DOMAIN paragraphs :
                      IsPrefix(Strip(LastChars(chunker.chunks[i - 1].chunk_text,
                                               chunk_overlap)
                                     \o <<"\n", "\n">> \o paragraphs[k].text),
                               chunker.chunks[i].chunk_text)

(* The overlap of the first chunk begins with a blank. *)
C26_Witness ==
    /\ Returned("chunk_text") /\ Len(chunker.chunks) = 2
    /\ chunker.chunks[1].chunk_text = <<"a", " ", "a">>
    /\ chunker.chunks[2].chunk_text = <<"a", "\n", "\n", "a", "a", "a">>

(* C27: every chunk of chunk_with_sentences after the first begins with    *)
(* the last chunk_overlap characters of the chunk before it, as the chunks *)
(* of chunk_text do.                                                       *)
C27_SentenceChunksOverlap ==
    Returned("chunk_with_sentences") =>
        \A i \in DOMAIN chunker.chunks :
            i > 1 => IsPrefix(Strip(LastChars(chunker.chunks[i - 1].chunk_text,
                                              chunk_overlap)),
                              chunker.chunks[i].chunk_text)

---------------------------------------------------------------------------
(* The searches of the vector store (services/vector_store.py).  The rows  *)
(* of resource_chunks are kept for two databases, "A" and "B", at once:    *)
(* each row names the databases that hold it, and a search runs on both,   *)
(* so that what one database returns can be compared with what another     *)
(* returns for the same call.  Similarities are those to the one query     *)
(* vector of a call, in tenths; a row's id is its place in the table.      *)

MaxRows == 2
MaxLimit == 2
Databases == {"A", "B"}
StoredResources == {"r1", "r2", "r3"}
SearchCourses == {"c1", "c2"}
Similarities == {5, 8}
TextScores == {0, 5, 7}
Limits == 0 .. MaxLimit

(* resources.topic_id and topics.course_id of the joined rows. *)
ResourceTopic == [r \in StoredResources |-> CASE r = "r1" -> "t1" [] r = "r2" -> "t2" [] r = "r3" -> "t3"]
TopicCourse == [t \in {"t1", "t2", "t3"} |-> IF t = "t3" THEN "c2" ELSE "c1"]
TopicIds == {None, PyStr("")} \cup {PyStr(t) : t \in DOMAIN TopicCourse}

(* The order of ORDER BY: every arrangement of the rows with the keys      *)
(* ascending; rows with equal keys come in any order.                      *)
OrderBy(ids, Key(_)) ==
    {o \in [1 .. Cardinality(ids) -> ids] :
        \A i, j \in DOMAIN o : i < j => o[i] # o[j] /\ Key(o[i]) <= Key(o[j])}

(* LIMIT :limit. *)
SqlLimit(o, limit) == SubSeq(o, 1, IF limit < Len(o) THEN limit ELSE Len(o))

(* How PostgreSQL reads resource_chunks for ORDER BY embedding <=> q: the  *)
(* whole table, or the ivfflat index idx_note_chunks_embedding, which      *)
(* visits only the list nearest to the query (ivfflat.probes is never set, *)
(* so one list of the hundred).                                            *)
Plans == {"seq_scan", "index_scan"}
ScanRows(rows, ids, plan) ==
    IF plan = "index_scan" THEN {i \in ids : rows[i].probed} ELSE ids

(* rc.embedding <=> :embedding, the cosine distance, in tenths. *)
Distance(row) == 10 - row.similarity

(* JOIN resources, JOIN topics, WHERE t.course_id = :course_id and, in the *)
(* branch of `if topic_id:`, AND r.topic_id = :topic_id.  uploaded_by is   *)
(* not nullable, so JOIN users drops no row.                               *)
SimilarWhere(row, course_id, topic_id) ==
    /\ TopicCourse[ResourceTopic[row.resource_id]] = course_id
    /\ Truthy(topic_id) => ResourceTopic[row.resource_id] = topic_id[2]

SimilarRow(rows, i) ==
    [id |-> i, resource_id |-> rows[i].resource_id,
     similarity |-> 10 - Distance(rows[i])]

(* search_similar: the lists the query can return on the rows `ids`. *)
search_similar(rows, ids, course_id, topic_id, limit, plan) ==
    LET matching == {i \in ScanRows(rows, ids, plan) :
                        SimilarWhere(rows[i], course_id, topic_id)}
        Key(i) == Distance(rows[i])
    IN  {[n \in DOMAIN SqlLimit(o, limit) |-> SimilarRow(rows, o[n])] :
            o \in OrderBy(matching, Key)}

(* LEFT JOIN text_results: ts_rank of the chunk text for the query, in     *)
(* tenths, or no row (NULL) when the text does not match the query (@@); a *)
(* stored row keeps the rank in text_score, 0 for a text without a match.  *)
SqlNull == <<>>
TextResult(row) == IF row.text_score > 0 THEN <<row.text_score>> ELSE SqlNull

(* COALESCE(v, d). *)
Coalesce(v, d) == IF v = SqlNull THEN d ELSE v[1]

(* Both scores weighted alike. *)
EvenScore(vector_score, text_score) == vector_score * 5 + text_score * 5

(* vector_score * 0.7 + text_score * 0.3, in hundredths. *)
WeightedScore(vector_score, text_score) == vector_score * 7 + text_score * 3

(* (vr.vector_score * 0.7 + COALESCE(tr.text_score, 0) * 0.3). *)
CombinedScore(row) == WeightedScore(10 - Distance(row), Coalesce(TextResult(row), 0))

HybridRow(rows, i) ==
    [id |-> i, resource_id |-> rows[i].resource_id,
     vector_score |-> 10 - Distance(rows[i]),
     text_score |-> Coalesce(TextResult(rows[i]), 0),
     combined_score |-> CombinedScore(rows[i])]

(* sorted(results, key=combined_score, reverse=True): Python's sort is     *)
(* stable, so results of equal score keep the order they came in.          *)
InsertByScore(sorted, x) ==
    LET p == Cardinality({i \in DOMAIN sorted : sorted[i].combined_score >= x.combined_score})
    IN  SubSeq(sorted, 1, p) \o <<x>> \o SubSeq(sorted, p + 1, Len(sorted))

RECURSIVE SortedByScore(_)
SortedByScore(results) ==
    IF results = <<>> THEN <<>>
    ELSE InsertByScore(SortedByScore(SubSeq(results, 1, Len(results) - 1)),
                       results[Len(results)])

(* hybrid_query_notes: top_results = sorted(...)[:max_chunks]. *)
TopResults(results, max_chunks) == SqlLimit(SortedByScore(results), max_chunks)

(* hybrid_search: both CTEs keep WHERE t.course_id = :course_id; the rows  *)
(* come ORDER BY combined_score DESC LIMIT :limit.                         *)
hybrid_search(rows, ids, course_id, limit) ==
    LET matching == {i \in ids : SimilarWhere(rows[i], course_id, None)}
        Key(i) == 0 - CombinedScore(rows[i])
    IN  {[n \in DOMAIN SqlLimit(o, limit) |-> HybridRow(rows, o[n])] :
            o \in OrderBy(matching, Key)}

(* The ids of the rows a database holds. *)
RowsIn(rows, db) == {i \in DOMAIN rows : db \in rows[i].stores}

VsUnchanged ==
    UNCHANGED <<notifyVars, brokerVars, prod, cw, pw, dbVars, channel, subscribed, chunker,
                ocr, histVars>>

(* A committed row of resource_chunks, in one database or in both. *)
StoreRow(resource_id, similarity, probed, text_score, stores) ==
    /\ vs.pc = "store"
    /\ Len(vs.rows) < MaxRows
    /\ vs' = [vs EXCEPT !.rows = Append(@,
                [resource_id |-> resource_id, similarity |-> similarity,
                 probed |-> probed, text_score |-> text_score, stores |-> stores])]
    /\ VsUnchanged

(* rag.query_notes: the same call of search_similar on either database,   *)
(* each database under the plan its planner takes.  `possible` keeps the   *)
(* lists the call could return under that plan (rows of equal distance     *)
(* come in any order), `results` the one it returns.                       *)
SearchSimilar(course_id, topic_id, limit) ==
    /\ vs.pc = "store"
    /\ \E planA, planB \in Plans :
         LET as == search_similar(vs.rows, RowsIn(vs.rows, "A"), course_id, topic_id, limit, planA)
             bs == search_similar(vs.rows, RowsIn(vs.rows, "B"), course_id, topic_id, limit, planB)
         IN  \E a \in as, b \in bs :
               vs' = [vs EXCEPT !.pc = "searched", !.method = "search_similar",
                                !.course_id = course_id, !.topic_id = topic_id,
                                !.limit = limit, !.results = [A |-> a, B |-> b],
                                !.possible = [A |-> as, B |-> bs]]
    /\ VsUnchanged

(* rag.hybrid_query_notes: the same call of hybrid_search on either, and   *)
(* the results sorted again by the caller.                                 *)
HybridSearch(course_id, limit) ==
    /\ vs.pc = "store"
    /\ LET as == hybrid_search(vs.rows, RowsIn(vs.rows, "A"), course_id, limit)
           bs == hybrid_search(vs.rows, RowsIn(vs.rows, "B"), course_id, limit)
       IN  \E a \in as, b \in bs :
             vs' = [vs EXCEPT !.pc = "searched", !.method = "hybrid_search",
                              !.course_id = course_id, !.topic_id = None,
                              !.limit = limit, !.results = [A |-> a, B |-> b],
                              !.top_results = [A |-> TopResults(a, limit),
                                               B |-> TopResults(b, limit)],
                              !.possible = [A |-> as, B |-> bs]]
    /\ VsUnchanged

(* A table emptied whatever the resource. *)
DeleteEveryRow(rows, resource_id) == <<>>

(* DELETE FROM resource_chunks WHERE resource_id = :resource_id. *)
DeleteWhere(rows, resource_id) ==
    LET Kept(row) == row.resource_id # resource_id
    IN  SelectSeq(rows, Kept)

(* result.rowcount: the rows of the database the statement removed. *)
Rowcount(rows, db, resource_id) ==
    Cardinality({i \in RowsIn(rows, db) : rows[i].resource_id = resource_id})

(* delete_chunks: the same call on either database, also straight after   *)
(* another call of delete_chunks; `repeated` and `previous` keep whether   *)
(* the call before was for the same resource, and what it returned.        *)
DeleteChunks(resource_id) ==
    /\ vs.pc \in {"store", "deleted"}
    /\ vs' = [VectorStoreAtRest EXCEPT
                 !.pc = "deleted", !.method = "delete_chunks",
                 !.rows = DeleteWhere(vs.rows, resource_id),
                 !.resource_id = resource_id,
                 !.rowcount = [db \in Databases |-> Rowcount(vs.rows, db, resource_id)],
                 !.repeated = (vs.pc = "deleted" /\ vs.resource_id = resource_id),
                 !.previous = vs.rowcount]
    /\ VsUnchanged

(* The caller has its results; the table is as it was. *)
NextSearch ==
    /\ vs.pc \in {"searched", "deleted"}
    /\ vs' = [VectorStoreAtRest EXCEPT !.rows = vs.rows]
    /\ VsUnchanged

NextVectorStore ==
    \/ \E r \in StoredResources, s \in Similarities, probed \in BOOLEAN, t \in TextScores,
          stores \in (SUBSET Databases) \ {{}} : StoreRow(r, s, probed, t, stores)
    \/ \E c \in SearchCourses, t \in TopicIds, k \in Limits : SearchSimilar(c, t, k)
    \/ \E c \in SearchCourses, k \in Limits : HybridSearch(c, k)
    \/ \E r \in StoredResources : DeleteChunks(r)
    \/ NextSearch

SpecVectorStore == Init /\ [][NextVectorStore]_vars

---------------------------------------------------------------------------
(* Properties of the vector store *)

(* C28: a call of insert_chunks with as many embeddings as chunks appends  *)
(* one row per chunk, row i holding chunk i and embedding i, and returns   *)
(* their number, unless the database fails and nothing is stored; a call   *)
(* with another number of embeddings raises and stores nothing.            *)
C28_InsertChunks ==
    [][\A w \in ChunkWorkers :
         (cw[w].pc = "insert" /\ cw'[w].pc # "insert") =>
            LET chunks == cw[w].chunks
                rows == SubSeq(chunkRows', Len(chunkRows) + 1, Len(chunkRows'))
            IN  IF Len(chunks) # cw[w].embeddings \/ cw'[w].pc # "mark"
                THEN chunkRows' = chunkRows /\ cw'[w].pc = "except"
                ELSE /\ chunkRows' = chunkRows \o rows
                     /\ Len(rows) = Len(chunks)
                     /\ cw'[w].inserted = Len(chunks)
                     /\ \A i \in DOMAIN rows :
                           /\ rows[i].resource_id = ResourceIdOf(cw[w].data)
                           /\ rows[i].chunk_text = chunks[i].chunk_text
                           /\ rows[i].chunk_index = chunks[i].chunk_index
                           /\ rows[i].embedding = i]_vars

C28_Witness ==
    \E w \in ChunkWorkers :
        /\ cw[w].pc = "mark" /\ cw[w].inserted = 2
        /\ Len(chunkRows) >= 2
        /\ chunkRows[Len(chunkRows)].embedding = 2

(* The rows of database db that a call of search_similar may choose from. *)
Candidates(db) ==
    {i \in RowsIn(vs.rows, db) : SimilarWhere(vs.rows[i], vs.course_id, vs.topic_id)}

Searched(method) == vs.pc = "searched" /\ vs.method = method

(* search_similar returns at most `limit` rows, the most similar first. *)
SearchWithinLimitDescending ==
    Searched("search_similar") =>
        \A db \in Databases :
            LET res == vs.results[db]
            IN  /\ Len(res) <= vs.limit
                /\ \A i, j \in DOMAIN res : i < j => res[i].similarity >= res[j].similarity

(* C29: search_similar with limit k returns at most k rows, in descending  *)
(* order of similarity, and no row of the course (and topic) that it       *)
(* leaves out is more similar than a row it returns.                       *)
C29_TopKBySimilarity ==
    /\ SearchWithinLimitDescending
    /\ Searched("search_similar") =>
        \A db \in Databases :
            LET res == vs.results[db]
                returned == {res[n].id : n \in DOMAIN res}
            IN  \A i \in Candidates(db) \ returned, n \in DOMAIN res :
                    vs.rows[i].similarity <= res[n].similarity

(* Every row returned is of a resource whose topic is in the course asked  *)
(* for.                                                                    *)
SearchStaysInCourse ==
    vs.pc = "searched" =>
        \A db \in Databases : \A n \in DOMAIN vs.results[db] :
            TopicCourse[ResourceTopic[vs.results[db][n].resource_id]] = vs.course_id

(* Every row returned is of the topic asked for, when one is named. *)
SearchStaysInTopic ==
    vs.pc = "searched" /\ Truthy(vs.topic_id) =>
        \A db \in Databases : \A n \in DOMAIN vs.results[db] :
            PyStr(ResourceTopic[vs.results[db][n].resource_id]) = vs.topic_id

(* The two databases hold the same rows of the course asked for. *)
DifferOnlyInOtherCourses ==
    \A i \in DOMAIN vs.rows :
        TopicCourse[ResourceTopic[vs.rows[i].resource_id]] = vs.course_id
            => vs.rows[i].stores = Databases

(* C30: every row search_similar and hybrid_search return is of the course *)
(* asked for, and of the topic when a topic_id is given; two databases     *)
(* that differ only in rows of other courses can return the same lists.    *)
C30_CourseIsolation ==
    /\ SearchStaysInCourse
    /\ SearchStaysInTopic
    /\ vs.pc = "searched" /\ DifferOnlyInOtherCourses =>
            vs.possible["A"] = vs.possible["B"]

(* The rows of database db that a call of hybrid_search may choose from. *)
HybridCandidates(db) ==
    {i \in RowsIn(vs.rows, db) :
        TopicCourse[ResourceTopic[vs.rows[i].resource_id]] = vs.course_id}

(* C31: hybrid_search gives every chunk of the course it returns           *)
(* combined_score = 0.7 * vector_score + 0.3 * lexical_score, the lexical  *)
(* score being 0 for a chunk the text query does not match; it returns     *)
(* limit chunks, or all of the course when there are fewer, and no chunk   *)
(* left out has a higher combined score than one returned; vector_score    *)
(* 0.8 with lexical_score 0.5 gives 0.71.                                  *)
C31_CombinedScore ==
    Searched("hybrid_search") =>
        \A db \in Databases :
            LET res == vs.results[db]
                returned == {res[n].id : n \in DOMAIN res}
            IN  /\ Len(res) <= vs.limit
                /\ Cardinality(returned) = Len(res)
                /\ returned \subseteq HybridCandidates(db)
                /\ Len(res) = vs.limit \/ returned = HybridCandidates(db)
                /\ \A n \in DOMAIN res :
                      LET row == vs.rows[res[n].id]
                      IN  /\ res[n].vector_score = row.similarity
                          /\ res[n].text_score = row.text_score
                          /\ res[n].combined_score
                                = 7 * res[n].vector_score + 3 * res[n].text_score
                          /\ (res[n].vector_score = 8 /\ res[n].text_score = 5)
                                => res[n].combined_score = 71
                /\ \A i \in HybridCandidates(db) \ returned, n \in DOMAIN res :
                      7 * vs.rows[i].similarity + 3 * vs.rows[i].text_score
                          <= res[n].combined_score

C31_Witness ==
    /\ Searched("hybrid_search")
    /\ vs.limit = 1
    /\ Cardinality(HybridCandidates("A")) = 2
    /\ Len(vs.results["A"]) = 1
    /\ vs.results["A"][1].vector_score = 8
    /\ vs.results["A"][1].text_score = 5
    /\ vs.results["A"][1].combined_score = 71
    /\ \E i \in HybridCandidates("A") : vs.rows[i].text_score = 0

(* The results of hybrid_search and of hybrid_query_notes are in           *)
(* descending order of combined score.                                     *)
HybridDescending ==
    Searched("hybrid_search") =>
        \A db \in Databases : \A res \in {vs.results[db], vs.top_results[db]} :
            \A i, j \in DOMAIN res :
                i < j => res[i].combined_score >= res[j].combined_score

(* C32: the results of hybrid_search, and those hybrid_query_notes makes   *)
(* of them, are in descending order of combined score, two chunks of equal *)
(* combined score in descending order of vector score.                     *)
C32_TiesByVectorScore ==
    /\ HybridDescending
    /\ Searched("hybrid_search") =>
        \A db \in Databases : \A res \in {vs.results[db], vs.top_results[db]} :
            \A i, j \in DOMAIN res :
                i < j /\ res[i].combined_score = res[j].combined_score
                    => res[i].vector_score >= res[j].vector_score

(* The rows of a table that are not of the resource, in their order. *)
RowsOfOthers(rows, resource_id) ==
    LET ids == {i \in DOMAIN rows : rows[i].resource_id # resource_id}
        Nth(n) == CHOOSE i \in ids : Cardinality({j \in ids : j < i}) = n - 1
    IN  [n \in 1 .. Cardinality(ids) |-> rows[Nth(n)]]

(* C33: delete_chunks(resource_id) removes every chunk of the resource and *)
(* no other, and returns the number of chunks removed; a second call       *)
(* straight after the first removes nothing and returns 0.                 *)
C33_DeleteChunks ==
    [][(vs'.pc = "deleted" /\ vs' # vs) =>
          LET r == vs'.resource_id
          IN  /\ \A i \in DOMAIN vs'.rows : vs'.rows[i].resource_id # r
              /\ vs'.rows = RowsOfOthers(vs.rows, r)
              /\ \A db \in Databases :
                    vs'.rowcount[db]
                        = Cardinality(RowsIn(vs.rows, db)) - Cardinality(RowsIn(vs'.rows, db))
              /\ (vs.pc = "deleted" /\ vs.resource_id = r) =>
                    /\ vs'.rows = vs.rows
                    /\ \A db \in Databases : vs'.rowcount[db] = 0]_vars

(* A second call for the same resource, after a first that removed one of  *)
(* two rows.                                                               *)
C33_Witness ==
    /\ vs.pc = "deleted" /\ vs.repeated
    /\ vs.previous = [A |-> 1, B |-> 1]
    /\ vs.rowcount = [A |-> 0, B |-> 0]
    /\ Len(vs.rows) = 1
    /\ vs.rows[1].resource_id # vs.resource_id
    /\ vs.rows[1].stores = Databases

---------------------------------------------------------------------------
(* Properties of re-chunking *)

(* The chunks stored for a resource are those of its current content. *)
ChunksAreCurrent(r) ==
    LET Of(row) == row.resource_id = r
    IN  SelectSeq(chunkRows, Of) = ChunkRowsOf(r, chunk_text(resource[r].content))

(* A worker commits is_processed = True for a job whose text is not the    *)
(* content of the resource any more.                                       *)
StaleJobMarksProcessed(w) ==
    /\ cw[w].pc \in {"commit_empty", "mark"}
    /\ LET r == ResourceIdOf(cw[w].data)
       IN  /\ resource[r].exists
           /\ cw[w].data.text # PyStr(resource[r].content)
           /\ ~resource[r].is_processed
           /\ resource'[r].is_processed

(* C34: while is_processed is true the chunks stored for the resource are  *)
(* those of its current content, and a chunking job whose text is older    *)
(* than the content of the resource never sets is_processed to true.       *)
C34_ProcessedMeansCurrent ==
    /\ [](\A r \in Resources : resource[r].is_processed => ChunksAreCurrent(r))
    /\ [][\A w \in ChunkWorkers : ~StaleJobMarksProcessed(w)]_vars

---------------------------------------------------------------------------
(* Properties of the notifier under concurrent joins and leaves *)

(* The broadcast of task t, suspended in a send, ends with this step, and  *)
(* the room is not the set of connections it had when the broadcast began. *)
EndsAfterRoomChanged(t) ==
    /\ task[t].pc = "sending"
    /\ task'[t].pc # "sending"
    /\ RoomMembers(active[ProcOf(t)], task[t].room) # task[t].orig

(* C35: a broadcast_to_course during which a connection joined or left the *)
(* room ends without raising, and has sent to every connection that was in *)
(* the room from its beginning to its end.                                 *)
C35_BroadcastSurvivesRoomChange ==
    [][\A t \in Tasks :
          EndsAfterRoomChanged(t) => ~bres'[t].raised /\ bres'[t].complete]_vars

(* C36: start_redis_listener outlives an exception raised while it         *)
(* broadcasts an envelope: after a broadcast of the relay has raised, the  *)
(* relay task is still there to relay the envelopes that follow.           *)
C36_RelayOutlivesErrors ==
    (bres["relay"].done /\ bres["relay"].raised) => task["relay"].pc # "dead"

(* The connections that are in some room of a process's manager. *)
InSomeRoom(p) == UNION {active[p][room] : room \in DOMAIN active[p]}

(* C37: in each process the keys of connection_users are exactly the       *)
(* connections that are in some room of active_connections, whatever       *)
(* connects, disconnects and broadcasts the endpoint and the relay made.   *)
C37_RegistryMapsAgree ==
    \A p \in Procs : DOMAIN users[p] = InSomeRoom(p)

(* ws1 joined and left, the relay has broadcast, ws2 is still in its room. *)
C37_Witness ==
    /\ task["ws1"].pc = "closed"
    /\ bres["relay"].done
    /\ DOMAIN users["api"] = {"ws2"}
    /\ InSomeRoom("api") = {"ws2"}

---------------------------------------------------------------------------
(* Properties of the grading queue *)

(* The TestAnswer rows named by the jobs that wait in queue:voice_grade. *)
AnswersQueued ==
    {json_loads(queue["voice_grade"][i])[2].data[2].answer_id[2] :
        i \in DOMAIN queue["voice_grade"]}

(* C38: every job a grading worker can dequeue from voice_grade names a    *)
(* TestAnswer that is committed, and no grading job ends because its       *)
(* answer is not found.                                                    *)
C38_AnswerCommittedBeforeJob ==
    /\ \A a \in AnswersQueued : answer[a].exists
    /\ \A j \in JobIds :
          (enq[j].called /\ enq[j].q = "voice_grade") => ended[j] # "not_found"

---------------------------------------------------------------------------
(* Properties of the chunk sizes *)

(* C39: for a text of at least min_chunk_size characters chunk_text        *)
(* returns at least one chunk, and no chunk it returns is longer than      *)
(* chunk_size.                                                             *)
C39_ChunksWithinChunkSize ==
    (Returned("chunk_text") /\ Len(chunker.text) >= min_chunk_size) =>
        /\ Len(chunker.chunks) >= 1
        /\ \A i \in DOMAIN chunker.chunks :
              Len(chunker.chunks[i].chunk_text) <= chunk_size

====
